---- MODULE Spec2Model ----
(***************************************************************************)
(* Retrieval & citation pipeline of eora-test.                             *)
(*                                                                         *)
(*   TextProcessor.split_text        src/parser/text_processor.py          *)
(*   EmbeddingManager.get_embeddings src/parser/embedding_manager.py       *)
(*   SearchEngine.search             src/ai/search_engine.py               *)
(*   ContextBuilder.create_context   src/ai/context_builder.py             *)
(*   TelegramBot.handle_message      src/telegram_bot.py                   *)
(*                                                                         *)
(* Each component has its own specification (SpecChunk, SpecEmbed,         *)
(* SpecSearch, SpecContext, SpecSources, SpecCite, SpecBot, SpecShared);   *)
(* the variables of the other components stay at their idle values there.  *)
(***************************************************************************)
EXTENDS Integers, Sequences, FiniteSets, TLC

VARIABLES
    \* ---- TextProcessor.split_text ----
    text_empty,      \* the argument text is the empty string ("not text")
    sentences,       \* nltk.sent_tokenize(normalised text): the length of each sentence
    chunk_size,
    chunk_overlap,
    chunks,          \* the returned list: each chunk is the sequence of the
                     \* positions (in sentences) of the sentences it joins
    split_pc,        \* "call" | "done"
    \* ---- EmbeddingManager.get_embeddings ----
    model,           \* self.model: the active embedding model identifier
    cache_file,      \* the file at self.cache_path: [exists, model, embeddings]
    stats,           \* self.stats: api_calls, cache_hits, cache_misses,
                     \* total_tokens
    texts,           \* the arguments of get_embeddings
    batch_size,
    max_retries,
    cache,           \* the dict returned by _load_cache, updated in memory
    final_embeddings,
    texts_to_fetch,  \* list(original_indices.keys())
    all_embeddings,  \* of _fetch_embeddings
    batch_start,     \* i of range(0, len(texts), batch_size), counted from 1
    attempt,         \* of range(max_retries)
    em_pc,           \* "idle" | "fetching"
    sent_batches,    \* history: the batches posted by the running call
    exhausted,       \* history: the texts whose batch fell back to zero vectors
    loaded,          \* history: what _load_cache returned to the running call
    waits,           \* history: per posted batch, the seconds slept after
                     \* each of its failed attempts
    calls,           \* history: one record per finished get_embeddings call
    \* ---- SearchEngine.search ----
    metadata,        \* self.metadata: the fragments, label = position
    question,        \* the arguments of search
    top_k,
    search_stats,    \* self.stats of the SearchEngine
    all_results,
    seen_texts,
    expanded_tasks,  \* the queries of expanded_embedding_tasks
    expanded_embeddings, \* the task results, then what gather returned
    completion,      \* history: the order in which the tasks completed
    exp_index,       \* i of enumerate(expanded_embeddings), counted from 1
    knn_left,        \* the matches of the running knn_query still to come
    knn_used,        \* the labels it has answered
    knn_last,        \* the distance of its last match
    returned,        \* the list search returns
    s_pc,            \* "idle" | "embed" | "knn" | "gather" | "knn_expanded"
                     \* | "keyword" | "done" ("off": not constructed)
    first_seen,      \* history: per text, the first candidate that any
                     \* strategy produced: [strategy, similarity, query]
    produced,        \* history: per text, the strategies that produced it
    vector_best,     \* history: per text, the highest similarity of its
                     \* index matches (-1: the index never answered it)
    knn_queries,     \* history: the knn_query calls of the search, in order:
                     \* 0 for the question, i for expanded_embeddings[i]
    \* ---- ContextBuilder.create_context ----
    search_results,  \* the argument of create_context
    max_context_length, \* self.max_context_length
    context,         \* the returned string: its blocks, "" being <<>>
    ctx_pc,          \* "call" | "done" ("off": not constructed)
    \* ---- ContextBuilder.extract_sources ----
    src_limit,       \* the argument limit
    src_pc,          \* "call" | "done" ("off": not called on its own)
    \* ---- TelegramBot.handle_message: the citations of the full answer ----
    full_response,   \* the streamed answer, a sequence of characters
    sources,         \* extract_sources(search_results): the urls, in order
    processed_response, \* the text of the final message
    cite_pc,         \* "call" | "done" ("off": no answer)
    \* ---- TelegramBot.handle_message: one question ----
    bot_pc,          \* "typing" | "search" | "results" | "stream" | "except"
                     \* | "error_handler" | "done" ("off": no question)
    stream,          \* the chunks stream_completion has still to yield
    received,        \* history: the chunks received so far
    snapshot_attempts, \* history: the edits of the progress message tried
                     \* while streaming: [at, delivered], at = the number of
                     \* chunks received by then
    message_update_counter,
    sent,            \* the messages delivered to the chat: [method, text]
    completion_calls, \* the calls of stream_completion
    error,           \* str(e) of the exception raised, NoError for none
    \* ---- several questions handled by one SearchEngine and one AIClient ----
    in_flight,       \* per question, where its search stands: "new" | "embed"
                     \* | "knn" | "gather" | "knn_expanded" | "keyword" | "done"
    engine_stats,    \* SearchEngine.stats, one dict for all questions
    client_stats,    \* AIClient.stats, one dict for all questions
    accesses         \* history: [object, question, kind] of every access to
                     \* an object that outlives one question

chunk_vars == <<text_empty, sentences, chunk_size, chunk_overlap, chunks, split_pc>>

embed_vars == <<model, cache_file, stats, texts, batch_size, max_retries, cache,
                final_embeddings, texts_to_fetch, all_embeddings, batch_start,
                attempt, em_pc, sent_batches, exhausted, loaded, waits, calls>>

search_vars == <<metadata, question, top_k, search_stats, all_results, seen_texts,
                 expanded_tasks, expanded_embeddings, completion, exp_index,
                 knn_left, knn_used, knn_last, returned, s_pc, first_seen, produced, vector_best,
                 knn_queries>>

context_vars == <<search_results, max_context_length, context, ctx_pc, src_limit, src_pc>>

cite_vars == <<full_response, sources, processed_response, cite_pc>>

bot_vars == <<bot_pc, stream, received, snapshot_attempts, message_update_counter,
              sent, completion_calls, error>>

shared_vars == <<in_flight, engine_stats, client_stats, accesses>>

vars == <<chunk_vars, embed_vars, search_vars, context_vars, cite_vars, bot_vars,
          shared_vars>>

(***************************************************************************)
(* Generic helpers                                                         *)
(***************************************************************************)
\* All sequences over S of length 0..n.
SeqsUpTo(S, n) == UNION {[1..k -> S] : k \in 0..n}

RECURSIVE SumSeq(_)
SumSeq(s) == IF s = <<>> THEN 0 ELSE Head(s) + SumSeq(Tail(s))

Range(s) == {s[i] : i \in DOMAIN s}

(***************************************************************************)
(* TextProcessor.split_text                                                *)
(***************************************************************************)
MaxSentences == 4
MaxSentLen == 3
MaxChunkSize == 4
MaxChunkOverlap == 4

\* len(s) for every sentence s of a chunk (a list of sentence positions).
ChunkLens(sents, chunk) == [k \in DOMAIN chunk |-> sents[chunk[k]]]

\* sum(len(s) for s in current_chunk)
CurrentLength(sents, chunk) == SumSeq(ChunkLens(sents, chunk))

\* len(" ".join(current_chunk)): the sentences and one space between neighbours.
JoinLen(sents, chunk) ==
    IF chunk = <<>> THEN 0 ELSE CurrentLength(sents, chunk) + (Len(chunk) - 1)

\* The loop condition of the backward walk: the accumulated length has
\* reached the wanted overlap.
OverlapReachedStrict(overlap_length, overlap) == overlap_length > overlap
OverlapReached(overlap_length, overlap) == overlap_length >= overlap

\* for j in range(len(current_chunk) - 1, -1, -1): ... ; overlap_end stays 0
\* (position 1 here) when the walk never reaches chunk_overlap.
RECURSIVE OverlapWalk(_, _, _, _, _)
OverlapWalk(sents, current_chunk, overlap, j, overlap_length) ==
    IF j < 1 THEN 1
    ELSE LET l == overlap_length + sents[current_chunk[j]]
         IN  IF OverlapReached(l, overlap) THEN j
             ELSE OverlapWalk(sents, current_chunk, overlap, j - 1, l)

OverlapEnd(sents, current_chunk, overlap) ==
    OverlapWalk(sents, current_chunk, overlap, Len(current_chunk), 0)

\* current_chunk = current_chunk[overlap_end:] + [sentence]
NextChunkWithoutSentence(current_chunk, overlap_end, i) ==
    SubSeq(current_chunk, overlap_end, Len(current_chunk))
NextChunk(current_chunk, overlap_end, i) ==
    SubSeq(current_chunk, overlap_end, Len(current_chunk)) \o <<i>>

\* The for loop over enumerate(sentences), from sentence i on, and the final
\* "if current_chunk: chunks.append(...)".
RECURSIVE SplitLoop(_, _, _, _, _, _)
SplitLoop(sents, size, overlap, i, done, current_chunk) ==
    IF i > Len(sents)
    THEN IF current_chunk # <<>> THEN Append(done, current_chunk) ELSE done
    ELSE IF current_chunk = <<>>
            \/ CurrentLength(sents, current_chunk) + sents[i] <= size
         THEN SplitLoop(sents, size, overlap, i + 1, done, Append(current_chunk, i))
         ELSE SplitLoop(sents, size, overlap, i + 1, Append(done, current_chunk),
                        NextChunk(current_chunk,
                                  OverlapEnd(sents, current_chunk, overlap), i))

split_text(empty, sents, size, overlap) ==
    IF empty THEN <<>> ELSE SplitLoop(sents, size, overlap, 1, <<>>, <<>>)

ChunkInit ==
    /\ sentences \in SeqsUpTo(1..MaxSentLen, MaxSentences)
    /\ text_empty \in {b \in BOOLEAN : b => sentences = <<>>}
    /\ chunk_size \in 1..MaxChunkSize
    /\ chunk_overlap \in 0..MaxChunkOverlap
    /\ chunks = <<>>
    /\ split_pc = "call"

SplitText ==
    /\ split_pc = "call"
    /\ chunks' = split_text(text_empty, sentences, chunk_size, chunk_overlap)
    /\ split_pc' = "done"
    /\ UNCHANGED <<text_empty, sentences, chunk_size, chunk_overlap>>

ChunkIdle ==
    /\ text_empty = TRUE
    /\ sentences = <<>>
    /\ chunk_size = 1
    /\ chunk_overlap = 0
    /\ chunks = <<>>
    /\ split_pc = "idle"

(***************************************************************************)
(* EmbeddingManager: the cache file, get_embeddings, _fetch_embeddings     *)
(***************************************************************************)
MaxTexts == 3
MaxBatchSize == 2
MaxRetries == 2
MaxCalls == 2

EmTexts == {"t1", "t2"}
Models == {"model-A", "model-B"}
\* cache_data has no "model" key.
NoModelKey == "no-model-key"

\* hashlib.sha256(text.encode()).hexdigest(): a digest, one per text.
Hash(t) == <<"sha256", t>>

\* What the embedding service answers for text t under model m.
ServiceVec(m, t) == <<"vec", m, t>>
\* [0.0] * self.embeddings_dim
ZeroVec == <<"zero", "", "">>
\* The None entries of final_embeddings.
None == <<"None", "", "">>

EmptyDict == [h \in {} |-> ZeroVec]

Min(a, b) == IF a <= b THEN a ELSE b

Perms(n) == {f \in [1..n -> 1..n] : \A i, j \in 1..n : f[i] = f[j] => i = j}

\* The file is absent or unreadable (FileNotFoundError, JSONDecodeError,
\* BadGzipFile).
NoFile == [exists |-> FALSE, model |-> NoModelKey, embeddings |-> EmptyDict]

\* _load_cache
LoadCacheUnchecked(file, m) ==
    IF ~file.exists THEN EmptyDict ELSE file.embeddings
LoadCache(file, m) ==
    IF ~file.exists THEN EmptyDict
    ELSE LET cache_model == IF file.model = NoModelKey THEN m ELSE file.model
         IN  IF cache_model # m THEN EmptyDict ELSE file.embeddings

\* _save_cache: one write of the whole dict, tagged with self.model.
SaveCache(c, m) == [exists |-> TRUE, model |-> m, embeddings |-> c]

\* "if text_hash in cache"
CacheHit(c, t) == Hash(t) \in DOMAIN c

\* final_embeddings after the cache check (lines 116-129).
CheckedEmbeddings(c, txts) ==
    [i \in DOMAIN txts |-> IF CacheHit(c, txts[i]) THEN c[Hash(txts[i])] ELSE None]

\* original_indices: each missing text with the positions it occupies.
OriginalIndices(c, txts) ==
    [t \in {txts[i] : i \in {j \in DOMAIN txts : ~CacheHit(c, txts[j])}}
        |-> {i \in DOMAIN txts : txts[i] = t}]

\* list(original_indices.keys()): the missing texts in order of first occurrence.
RECURSIVE KeysInOrder(_, _, _)
KeysInOrder(c, txts, acc) ==
    IF txts = <<>> THEN acc
    ELSE LET t == Head(txts)
         IN  KeysInOrder(c, Tail(txts),
                         IF CacheHit(c, t) \/ t \in Range(acc) THEN acc
                         ELSE Append(acc, t))

\* batch = texts[i : i + batch_size]
Batch(ttf, start, bs) == SubSeq(ttf, start, Min(start + bs - 1, Len(ttf)))

\* data["data"] of a successful response: one item per input, in any order.
Responses(m, batch) ==
    {[k \in DOMAIN batch |-> [index |-> perm[k] - 1,
                              embedding |-> ServiceVec(m, batch[perm[k]])]]
        : perm \in Perms(Len(batch))}

\* sorted(data["data"], key=lambda e: e["index"])
Unsorted(data) == data
SortByIndex(data) ==
    [k \in DOMAIN data |-> CHOOSE e \in Range(data) : e.index = k - 1]

\* [item["embedding"] for item in batch_embeddings]
EmbeddingsOf(data) == [k \in DOMAIN data |-> data[k].embedding]

\* [[0.0] * self.embeddings_dim] * len(batch)
ZeroVectors(batch) == [k \in DOMAIN batch |-> ZeroVec]

\* Position of text t in texts_to_fetch.
IndexOf(ttf, t) == CHOOSE k \in DOMAIN ttf : ttf[k] = t

\* cache[text_hash] = embedding, for every fetched text (lines 143-146).
FilledCache(c, ttf, new) ==
    [h \in DOMAIN c \cup {Hash(ttf[k]) : k \in DOMAIN ttf} |->
        IF \E k \in DOMAIN ttf : h = Hash(ttf[k])
        THEN new[CHOOSE k \in DOMAIN ttf : h = Hash(ttf[k])]
        ELSE c[h]]

\* final_embeddings[original_index] = embedding (lines 148-149).
FilledEmbeddings(fe, oi, ttf, new) ==
    [i \in DOMAIN fe |->
        IF \E t \in DOMAIN oi : i \in oi[t]
        THEN new[IndexOf(ttf, CHOOSE t \in DOMAIN oi : i \in oi[t])]
        ELSE fe[i]]

\* Vectors a cache file can hold for text t.
StoredVecs(tag, t) ==
    IF tag = NoModelKey THEN {ServiceVec(m, t) : m \in Models} \cup {ZeroVec}
    ELSE {ServiceVec(tag, t), ZeroVec}

Dicts(tag) ==
    UNION {{f \in [{Hash(t) : t \in S} -> UNION {StoredVecs(tag, t) : t \in EmTexts}] :
               \A t \in S : f[Hash(t)] \in StoredVecs(tag, t)}
           : S \in SUBSET EmTexts}

InitialFiles ==
    {NoFile} \cup
    UNION {{[exists |-> TRUE, model |-> tag, embeddings |-> d] : d \in Dicts(tag)}
           : tag \in Models \cup {NoModelKey}}

\* self.stats after __init__
NoEmbedStats == [api_calls |-> 0, cache_hits |-> 0, cache_misses |-> 0,
                 total_tokens |-> 0]

\* sum(len(text.split()) for text in batch): every text here is one word.
TokensOf(batch) == Len(batch)

\* wait_time = 2**attempt
WaitTime(a) == 2 ^ a

\* The locals of a call that is not running.
NoCall ==
    /\ cache = EmptyDict
    /\ final_embeddings = <<>>
    /\ texts_to_fetch = <<>>
    /\ all_embeddings = <<>>
    /\ batch_start = 0
    /\ attempt = 0
    /\ sent_batches = <<>>
    /\ exhausted = {}
    /\ loaded = EmptyDict
    /\ waits = <<>>

NoCallNext ==
    /\ cache' = EmptyDict
    /\ final_embeddings' = <<>>
    /\ texts_to_fetch' = <<>>
    /\ all_embeddings' = <<>>
    /\ batch_start' = 0
    /\ attempt' = 0
    /\ sent_batches' = <<>>
    /\ exhausted' = {}
    /\ loaded' = EmptyDict
    /\ waits' = <<>>

EmbedInit ==
    /\ model \in Models
    /\ cache_file \in InitialFiles
    /\ stats = NoEmbedStats
    /\ texts \in SeqsUpTo(EmTexts, MaxTexts)
    /\ batch_size \in 1..MaxBatchSize
    /\ max_retries \in 1..MaxRetries
    /\ em_pc = "idle"
    /\ calls = <<>>
    /\ NoCall

EmbedIdle ==
    /\ model = "model-A"
    /\ cache_file = NoFile
    /\ stats = NoEmbedStats
    /\ texts = <<>>
    /\ batch_size = 1
    /\ max_retries = 1
    /\ em_pc = "off"
    /\ calls = <<>>
    /\ NoCall

\* The record of a finished call: its arguments, what it found on disk and
\* loaded, what it posted, how it ended and self.stats at its end.
CallRecord(outcome, result, batches, ld, ex, st, ws) ==
    [outcome |-> outcome, texts |-> texts, model |-> model, result |-> result,
     api_calls |-> Len(batches), batches |-> batches, loaded |-> ld,
     exhausted |-> ex, file |-> cache_file, max_retries |-> max_retries,
     stats |-> st, waits |-> ws]

\* get_embeddings up to its first await: load the cache, check every text,
\* and either return at once (nothing to fetch: lines 138, 152-154) or enter
\* _fetch_embeddings and its first batch (lines 170-181).
GetEmbeddings ==
    /\ em_pc = "idle"
    /\ Len(calls) < MaxCalls
    /\ LET c == LoadCache(cache_file, model)
           fe == CheckedEmbeddings(c, texts)
           ttf == KeysInOrder(c, texts, <<>>)
           hits == Cardinality({i \in DOMAIN texts : CacheHit(c, texts[i])})
           st == [stats EXCEPT !.cache_hits = @ + hits,
                               !.cache_misses = @ + (Len(texts) - hits)]
       IN  IF ttf = <<>>
           THEN /\ cache_file' = SaveCache(c, model)
                /\ calls' = Append(calls,
                       CallRecord("returned", fe, <<>>, c, {}, st, <<>>))
                /\ stats' = st
                /\ NoCallNext
                /\ UNCHANGED em_pc
           ELSE /\ cache' = c
                /\ loaded' = c
                /\ final_embeddings' = fe
                /\ texts_to_fetch' = ttf
                /\ all_embeddings' = <<>>
                /\ batch_start' = 1
                /\ attempt' = 0
                /\ stats' = [st EXCEPT !.api_calls = @ + 1,
                                        !.total_tokens =
                                            @ + TokensOf(Batch(ttf, 1, batch_size))]
                /\ sent_batches' = <<Batch(ttf, 1, batch_size)>>
                /\ waits' = <<<<>>>>
                /\ exhausted' = {}
                /\ em_pc' = "fetching"
                /\ UNCHANGED <<cache_file, calls>>
    /\ UNCHANGED <<model, texts, batch_size, max_retries>>

CurrentBatch == Batch(texts_to_fetch, batch_start, batch_size)

\* The batch is over with all_embeddings = ae: go to the next batch, or leave
\* _fetch_embeddings, fill cache and final_embeddings, save and return.
AfterBatch(ae, ex) ==
    IF batch_start + batch_size <= Len(texts_to_fetch)
    THEN /\ batch_start' = batch_start + batch_size
         /\ attempt' = 0
         /\ all_embeddings' = ae
         /\ exhausted' = ex
         /\ stats' = [stats EXCEPT
                !.api_calls = @ + 1,
                !.total_tokens = @ + TokensOf(Batch(texts_to_fetch,
                                        batch_start + batch_size, batch_size))]
         /\ sent_batches' = Append(sent_batches,
                Batch(texts_to_fetch, batch_start + batch_size, batch_size))
         /\ waits' = Append(waits, <<>>)
         /\ UNCHANGED <<cache, final_embeddings, texts_to_fetch, loaded, em_pc,
                        cache_file, calls>>
    ELSE LET c == FilledCache(cache, texts_to_fetch, ae)
             fe == FilledEmbeddings(final_embeddings,
                                    OriginalIndices(loaded, texts),
                                    texts_to_fetch, ae)
         IN  /\ cache_file' = SaveCache(c, model)
             /\ calls' = Append(calls,
                    CallRecord("returned", fe, sent_batches, loaded, ex,
                               stats, waits))
             /\ em_pc' = "idle"
             /\ NoCallNext
             /\ UNCHANGED stats

\* client.post answers 200: sort the items by index, extend, sleep, break.
PostOk ==
    /\ em_pc = "fetching"
    /\ \E data \in Responses(model, CurrentBatch) :
          AfterBatch(all_embeddings \o EmbeddingsOf(SortByIndex(data)), exhausted)
    /\ UNCHANGED <<model, texts, batch_size, max_retries>>

\* client.post raises httpx.RequestError: retry after 2**attempt seconds, or
\* fall back to zero vectors on the last attempt.
PostRequestError ==
    /\ em_pc = "fetching"
    /\ IF attempt + 1 = max_retries
       THEN AfterBatch(all_embeddings \o ZeroVectors(CurrentBatch),
                       exhausted \cup Range(CurrentBatch))
       ELSE /\ attempt' = attempt + 1
            /\ waits' = [waits EXCEPT ![Len(waits)] = Append(@, WaitTime(attempt))]
            /\ UNCHANGED <<cache, final_embeddings, texts_to_fetch, all_embeddings,
                           batch_start, sent_batches, exhausted, loaded, em_pc,
                           cache_file, calls, stats>>
    /\ UNCHANGED <<model, texts, batch_size, max_retries>>

\* The service answers with an error status (429, 5xx): raise_for_status
\* raises httpx.HTTPStatusError, which is no httpx.RequestError, so it leaves
\* _fetch_embeddings and get_embeddings; nothing is saved.
PostStatusError ==
    /\ em_pc = "fetching"
    /\ calls' = Append(calls,
           CallRecord("raised", <<>>, sent_batches, loaded, exhausted, stats,
                      waits))
    /\ em_pc' = "idle"
    /\ NoCallNext
    /\ UNCHANGED <<model, texts, batch_size, max_retries, cache_file, stats>>

(***************************************************************************)
(* Strings of SearchEngine: questions, fragment texts, keywords            *)
(***************************************************************************)
\* Characters are one-element strings; a Cyrillic letter is written as its
\* transliteration followed by an apostrophe ("b'" is the Cyrillic be, "b" the
\* Latin b), upper case in upper case. A string is a sequence of characters.
CyrillicLower == {
    "a'", "b'", "v'", "g'", "d'", "e'", "yo'", "zh'", "z'", "i'", "j'", "k'",
    "l'", "m'", "n'", "o'", "p'", "r'", "s'", "t'", "u'", "f'", "h'", "c'",
    "ch'", "sh'", "sch'", "qq'", "y'", "q'", "eh'", "yu'", "ya'"}
CyrillicUpper == {
    "A'", "B'", "V'", "G'", "D'", "E'", "YO'", "ZH'", "Z'", "I'", "J'", "K'",
    "L'", "M'", "N'", "O'", "P'", "R'", "S'", "T'", "U'", "F'", "H'", "C'",
    "CH'", "SH'", "SCH'", "QQ'", "Y'", "Q'", "EH'", "YU'", "YA'"}
LatinLower == {
    "a", "b", "c", "d", "e", "f", "g", "h", "i", "j", "k", "l", "m", "n",
    "o", "p", "q", "r", "s", "t", "u", "v", "w", "x", "y", "z"}
LatinUpper == {
    "A", "B", "C", "D", "E", "F", "G", "H", "I", "J", "K", "L", "M", "N",
    "O", "P", "Q", "R", "S", "T", "U", "V", "W", "X", "Y", "Z"}
\* str.lower(), character by character.
LowerPairs == {
    <<"A'", "a'">>, <<"B'", "b'">>, <<"V'", "v'">>, <<"G'", "g'">>,
    <<"D'", "d'">>, <<"E'", "e'">>, <<"YO'", "yo'">>, <<"ZH'", "zh'">>,
    <<"Z'", "z'">>, <<"I'", "i'">>, <<"J'", "j'">>, <<"K'", "k'">>,
    <<"L'", "l'">>, <<"M'", "m'">>, <<"N'", "n'">>, <<"O'", "o'">>,
    <<"P'", "p'">>, <<"R'", "r'">>, <<"S'", "s'">>, <<"T'", "t'">>,
    <<"U'", "u'">>, <<"F'", "f'">>, <<"H'", "h'">>, <<"C'", "c'">>,
    <<"CH'", "ch'">>, <<"SH'", "sh'">>, <<"SCH'", "sch'">>, <<"QQ'", "qq'">>,
    <<"Y'", "y'">>, <<"Q'", "q'">>, <<"EH'", "eh'">>, <<"YU'", "yu'">>,
    <<"YA'", "ya'">>, <<"A", "a">>, <<"B", "b">>, <<"C", "c">>, <<"D", "d">>,
    <<"E", "e">>, <<"F", "f">>, <<"G", "g">>, <<"H", "h">>, <<"I", "i">>,
    <<"J", "j">>, <<"K", "k">>, <<"L", "l">>, <<"M", "m">>, <<"N", "n">>,
    <<"O", "o">>, <<"P", "p">>, <<"Q", "q">>, <<"R", "r">>, <<"S", "s">>,
    <<"T", "t">>, <<"U", "u">>, <<"V", "v">>, <<"W", "w">>, <<"X", "x">>,
    <<"Y", "y">>, <<"Z", "z">>}
\* The synonyms table of expand_query, in its insertion order.
synonyms == <<
    [word |-> <<"p'", "r'", "o'", "e'", "k'", "t'">>,
     syns |-> <<<<"k'", "e'", "j'", "s'">>,
               <<"z'", "a'", "d'", "a'", "ch'", "a'">>,
               <<"r'", "e'", "sh'", "e'", "n'", "i'", "e'">>,
               <<"r'", "a'", "z'", "r'", "a'", "b'", "o'", "t'", "k'", "a'">>>>],
    [word |-> <<"a'", "l'", "g'", "o'", "r'", "i'", "t'", "m'">>,
     syns |-> <<<<"n'", "e'", "j'", "r'", "o'", "s'", "e'", "t'", "q'">>,
               <<"m'", "o'", "d'", "e'", "l'", "q'">>,
               <<"I'", "I'">>,
               <<"A", "I">>,
               <<"m'", "a'", "sh'", "i'", "n'", "n'", "o'", "e'", " ", "o'", "b'", "u'", "ch'", "e'", "n'", "i'", "e'">>>>],
    [word |-> <<"b'", "o'", "t'">>,
     syns |-> <<<<"ch'", "a'", "t'", "-", "b'", "o'", "t'">>,
               <<"a'", "s'", "s'", "i'", "s'", "t'", "e'", "n'", "t'">>,
               <<"p'", "o'", "m'", "o'", "sch'", "n'", "i'", "k'">>,
               <<"c", "h", "a", "t", "b", "o", "t">>>>],
    [word |-> <<"k'", "o'", "m'", "p'", "a'", "n'", "i'", "ya'">>,
     syns |-> <<<<"k'", "l'", "i'", "e'", "n'", "t'">>,
               <<"z'", "a'", "k'", "a'", "z'", "ch'", "i'", "k'">>,
               <<"o'", "r'", "g'", "a'", "n'", "i'", "z'", "a'", "c'", "i'", "ya'">>,
               <<"f'", "i'", "r'", "m'", "a'">>>>],
    [word |-> <<"t'", "e'", "h'", "n'", "o'", "l'", "o'", "g'", "i'", "ya'">>,
     syns |-> <<<<"r'", "e'", "sh'", "e'", "n'", "i'", "e'">>,
               <<"s'", "i'", "s'", "t'", "e'", "m'", "a'">>,
               <<"p'", "l'", "a'", "t'", "f'", "o'", "r'", "m'", "a'">>,
               <<"i'", "n'", "s'", "t'", "r'", "u'", "m'", "e'", "n'", "t'">>>>],
    [word |-> <<"a'", "n'", "a'", "l'", "i'", "z'">>,
     syns |-> <<<<"o'", "b'", "r'", "a'", "b'", "o'", "t'", "k'", "a'">>,
               <<"i'", "s'", "s'", "l'", "e'", "d'", "o'", "v'", "a'", "n'", "i'", "e'">>,
               <<"i'", "z'", "u'", "ch'", "e'", "n'", "i'", "e'">>,
               <<"a'", "n'", "a'", "l'", "i'", "t'", "i'", "k'", "a'">>>>],
    [word |-> <<"a'", "v'", "t'", "o'", "m'", "a'", "t'", "i'", "z'", "a'", "c'", "i'", "ya'">>,
     syns |-> <<<<"o'", "p'", "t'", "i'", "m'", "i'", "z'", "a'", "c'", "i'", "ya'">>,
               <<"u'", "p'", "r'", "o'", "sch'", "e'", "n'", "i'", "e'">>,
               <<"u'", "s'", "k'", "o'", "r'", "e'", "n'", "i'", "e'">>>>]>>
\* The stop words of extract_keywords.
stop_words == {
    <<"k'", "a'", "k'">>,
    <<"ch'", "t'", "o'">>,
    <<"g'", "d'", "e'">>,
    <<"k'", "o'", "g'", "d'", "a'">>,
    <<"p'", "o'", "ch'", "e'", "m'", "u'">>,
    <<"k'", "o'", "t'", "o'", "r'", "y'", "j'">>,
    <<"k'", "o'", "t'", "o'", "r'", "a'", "ya'">>,
    <<"k'", "o'", "t'", "o'", "r'", "o'", "e'">>,
    <<"d'", "l'", "ya'">>,
    <<"i'", "l'", "i'">>,
    <<"eh'", "t'", "o'">>,
    <<"e'", "s'", "t'", "q'">>,
    <<"b'", "y'", "l'">>,
    <<"b'", "y'", "l'", "a'">>,
    <<"b'", "y'", "l'", "o'">>,
    <<"b'", "y'", "l'", "i'">>,
    <<"m'", "o'", "zh'", "e'", "t'">>}
\* "Bot eora" transliterated
QuestionBotEora == <<"B'", "o'", "t'", " ", "e", "o", "r", "a">>
\* "rabota" transliterated
QuestionRabota == <<"r'", "a'", "b'", "o'", "t'", "a'">>
\* "kak ii" transliterated
QuestionKak == <<"k'", "a'", "k'", " ", "i'", "i'">>
\* "eora2 eora" transliterated
QuestionEora == <<"e", "o", "r", "a", "2", " ", "e", "o", "r", "a">>
\* "eora: bot" transliterated
TextBotEora == <<"e", "o", "r", "a", ":", " ", "b'", "o'", "t'">>
\* "Rabota" transliterated
TextRabota == <<"R'", "a'", "b'", "o'", "t'", "a'">>
\* "ii" transliterated
TextIi == <<"i'", "i'">>

Letters == CyrillicLower \cup CyrillicUpper \cup LatinLower \cup LatinUpper

\* The character class of the keyword pattern: [а-яёА-ЯЁa-zA-Z].
IsLetter(c) == c \in Letters

\* \w, which decides where \b matches: letters, digits and the underscore.
IsWordChar(c) == IsLetter(c) \/ c \in {"0", "1", "2", "3", "4", "5", "6", "7", "8", "9", "_"}

Lower(c) ==
    IF \E p \in LowerPairs : p[1] = c
    THEN (CHOOSE p \in LowerPairs : p[1] = c)[2]
    ELSE c

\* text.lower()
LowerStr(str) == [i \in DOMAIN str |-> Lower(str[i])]

\* "word in text": word occurs in text as a substring.
IsSubstring(word, str) ==
    \E i \in 1..(Len(str) - Len(word) + 1) : SubSeq(str, i, i + Len(word) - 1) = word

\* str.replace(word, syn): every occurrence, left to right, without overlap.
RECURSIVE Replace(_, _, _)
Replace(str, word, syn) ==
    IF Len(str) < Len(word) THEN str
    ELSE IF SubSeq(str, 1, Len(word)) = word
         THEN syn \o Replace(SubSeq(str, Len(word) + 1, Len(str)), word, syn)
         ELSE <<Head(str)>> \o Replace(Tail(str), word, syn)

\* The queries one table entry adds: one per synonym when the word occurs in
\* question.lower().
Rewrites(q, entry) ==
    IF IsSubstring(entry.word, LowerStr(q))
    THEN [j \in DOMAIN entry.syns |-> Replace(LowerStr(q), entry.word, entry.syns[j])]
    ELSE <<>>

RECURSIVE RewritesFrom(_, _)
RewritesFrom(q, k) ==
    IF k > Len(synonyms) THEN <<>>
    ELSE Rewrites(q, synonyms[k]) \o RewritesFrom(q, k + 1)

expand_query(q) == <<q>> \o RewritesFrom(q, 1)

\* re.findall(r"\b[а-яёА-ЯЁa-zA-Z]{3,}\b", text.lower()): the runs of three or
\* more letters with a word boundary on both sides.
WordMatches(str) ==
    {<<a, b>> \in (DOMAIN str) \X (DOMAIN str) :
        /\ b - a + 1 >= 3
        /\ \A i \in a..b : IsLetter(str[i])
        /\ a = 1 \/ ~IsWordChar(str[a - 1])
        /\ b = Len(str) \/ ~IsWordChar(str[b + 1])}

\* list(set(keywords)): the matched words that are no stop words.
extract_keywords(str) ==
    {SubSeq(LowerStr(str), m[1], m[2]) : m \in WordMatches(LowerStr(str))} \ stop_words

(***************************************************************************)
(* SearchEngine.search                                                     *)
(*                                                                         *)
(* The index is the environment: knn_query(vector, k) answers with k       *)
(* distinct labels, nearest first; the corpus holds at least k fragments.  *)
(* Similarities and distances are counted in units of 1/SimScale.          *)
(***************************************************************************)
MaxFragments == 5

SimScale == 600

\* "similarity": 1 - dist
Similarity(dist) == SimScale - dist

\* (1 - dist) > 0.6
AboveHalf(sim) == 2 * sim > SimScale
AboveThreshold(sim) == 10 * sim > 6 * SimScale

\* The cosine distances the index answers with: similarities 1 and 0.6.
Distances == {0, 240}

\* knn_query(exp_vector, k=5)
ExpandedK == 5

\* The fragments of three documents; two documents share one fragment text.
Fragments ==
    <<[text |-> TextBotEora, source |-> "https://eora.ru/cases/a"],
      [text |-> TextRabota, source |-> "https://eora.ru/cases/b"],
      [text |-> TextRabota, source |-> "https://eora.ru/cases/c"],
      [text |-> TextIi, source |-> "https://eora.ru/cases/c"]>>

AllTexts == {Fragments[i].text : i \in DOMAIN Fragments}

\* self.metadata: the fragments document by document, each of them present;
\* the last document is the one with repeated fragments.
Corpora ==
    {[i \in 1..MaxFragments |-> Fragments[f[i]]] :
        f \in {g \in [1..MaxFragments -> DOMAIN Fragments] :
                 /\ \A i \in 1..(MaxFragments - 1) : g[i] <= g[i + 1]
                 /\ \A k \in DOMAIN Fragments :
                       \E i \in 1..MaxFragments : g[i] = k
                 /\ \A i \in 1..3 : g[i] = i}}

Questions == {QuestionBotEora, QuestionRabota, QuestionKak, QuestionEora}

\* top_k of the caller: one that cuts the pool, and 5.
TopKs == {2, 5}

\* What get_embedding(text) returns when the service answers.
Embedding(str) == <<"emb", str>>
\* A task that has not completed yet.
Pending == <<"pending", <<>>>>
\* get_embedding returned None.
NoVector == <<"None", <<>>>>

\* The result dict built from one index match.
Match(label, dist, strategy) ==
    [text |-> metadata[label].text,
     source |-> metadata[label].source,
     similarity |-> Similarity(dist),
     strategy |-> strategy]

\* "text not in seen_texts"
AlwaysNew(text, seen) == TRUE
NotSeen(text, seen) == text \notin seen

\* all_results.append(...); seen_texts.add(text); self.stats[...] += 1
\* acc = [pool, seen, hits]
AdmitOrRaise(acc, cand) ==
    IF NotSeen(cand.text, acc.seen)
    THEN [pool |-> Append(acc.pool, cand),
          seen |-> acc.seen \cup {cand.text},
          hits |-> acc.hits + 1]
    ELSE [acc EXCEPT !.pool =
             [i \in DOMAIN acc.pool |->
                 IF acc.pool[i].text = cand.text
                    /\ cand.similarity > acc.pool[i].similarity
                 THEN cand ELSE acc.pool[i]]]
Admit(acc, cand) ==
    IF NotSeen(cand.text, acc.seen)
    THEN [pool |-> Append(acc.pool, cand),
          seen |-> acc.seen \cup {cand.text},
          hits |-> acc.hits + 1]
    ELSE acc

\* The loop over keyword_results (lines 185-189).
RECURSIVE AdmitAll(_, _)
AdmitAll(acc, cands) ==
    IF cands = <<>> THEN acc
    ELSE AdmitAll(Admit(acc, Head(cands)), Tail(cands))

\* The expanded strategy passes a match on only above the threshold.
PassesAboveHalf(cand) == AboveHalf(cand.similarity)
PassesThreshold(cand) == AboveThreshold(cand.similarity)

\* Every rewrite becomes a task.
EveryRewrite(q) == SelectSeq(Tail(expand_query(q)), LAMBDA x : x # q)

\* for expanded_query in expanded_queries[1:3]: if expanded_query != question
ExpandedTasks(q) ==
    LET eq == expand_query(q)
    IN  SelectSeq(SubSeq(eq, 2, Min(3, Len(eq))), LAMBDA x : x # q)

\* asyncio.gather(*tasks): the results in the order of the tasks, whatever
\* order they completed in.
InCompletionOrder(results, order) == [i \in DOMAIN order |-> results[order[i]]]
GatherResults(results, order) == results

\* The number of keywords that occur in text.lower().
KeywordMatches(keywords, text) ==
    Cardinality({k \in keywords : IsSubstring(k, LowerStr(text))})

\* sorted(..., key=similarity, reverse=True): stable, equal keys keep their order.
StaysBefore(a, x) == a.similarity >= x.similarity

RECURSIVE InsertDesc(_, _)
InsertDesc(sorted, x) ==
    IF sorted = <<>> THEN <<x>>
    ELSE IF StaysBefore(Head(sorted), x)
         THEN <<Head(sorted)>> \o InsertDesc(Tail(sorted), x)
         ELSE <<x>> \o sorted

RECURSIVE SortFrom(_, _)
SortFrom(sorted, rest) ==
    IF rest = <<>> THEN sorted
    ELSE SortFrom(InsertDesc(sorted, Head(rest)), Tail(rest))

SortDesc(results) == SortFrom(<<>>, results)

\* results[:n]
TakeAll(results, n) == results
Take(results, n) == SubSeq(results, 1, Min(n, Len(results)))

\* The loop of keyword_search over self.metadata.
RECURSIVE KeywordHits(_, _, _)
KeywordHits(keywords, threshold, i) ==
    IF i > Len(metadata) THEN <<>>
    ELSE LET n == KeywordMatches(keywords, metadata[i].text)
         IN  (IF n >= threshold
              THEN <<[text |-> metadata[i].text,
                      source |-> metadata[i].source,
                      similarity |-> (n * SimScale) \div Cardinality(keywords),
                      strategy |-> "keyword"]>>
              ELSE <<>>) \o KeywordHits(keywords, threshold, i + 1)

keyword_search(keywords, threshold) ==
    Take(SortDesc(KeywordHits(keywords, threshold, 1)), 5)

\* ---- history of one search ----
Absent == [strategy |-> "none", similarity |-> 0, query |-> 0]

\* The position of a rewritten query among the tasks, from its vector.
QueryOf(vector) ==
    CHOOSE i \in DOMAIN expanded_tasks : Embedding(expanded_tasks[i]) = vector

\* A strategy produced cand by its query number q (0: the question itself,
\* 1 and 2: the rewrites, 3: the keyword scan).
Produce(hist, cand, q) ==
    [first |-> IF hist.first[cand.text] = Absent
               THEN [hist.first EXCEPT ![cand.text] =
                        [strategy |-> cand.strategy,
                         similarity |-> cand.similarity,
                         query |-> q]]
               ELSE hist.first,
     by |-> [hist.by EXCEPT ![cand.text] = @ \cup {cand.strategy}]]

\* The index answered with cand.
Answered(best, cand) ==
    [best EXCEPT ![cand.text] = IF cand.similarity > @ THEN cand.similarity ELSE @]

RECURSIVE ProduceAll(_, _, _)
ProduceAll(hist, cands, q) ==
    IF cands = <<>> THEN hist
    ELSE ProduceAll(Produce(hist, Head(cands), q), Tail(cands), q)

\* ---- the state machine ----
NoStats == [total_searches |-> 0, direct_hits |-> 0,
            expanded_hits |-> 0, keyword_hits |-> 0]

SearchInit ==
    /\ metadata \in Corpora
    /\ question \in Questions
    /\ top_k \in TopKs
    /\ search_stats = NoStats
    /\ all_results = <<>>
    /\ seen_texts = {}
    /\ expanded_tasks = <<>>
    /\ expanded_embeddings = <<>>
    /\ completion = <<>>
    /\ exp_index = 0
    /\ knn_left = 0
    /\ knn_used = {}
    /\ knn_last = 0
    /\ returned = <<>>
    /\ s_pc = "idle"
    /\ first_seen = [t \in AllTexts |-> Absent]
    /\ produced = [t \in AllTexts |-> {}]
    /\ vector_best = [t \in AllTexts |-> -1]
    /\ knn_queries = <<>>

SearchIdle ==
    /\ metadata = <<>>
    /\ question = <<>>
    /\ top_k = 0
    /\ search_stats = NoStats
    /\ all_results = <<>>
    /\ seen_texts = {}
    /\ expanded_tasks = <<>>
    /\ expanded_embeddings = <<>>
    /\ completion = <<>>
    /\ exp_index = 0
    /\ knn_left = 0
    /\ knn_used = {}
    /\ knn_last = 0
    /\ returned = <<>>
    /\ s_pc = "off"
    /\ first_seen = <<>>
    /\ produced = <<>>
    /\ vector_best = <<>>
    /\ knn_queries = <<>>

\* The enumeration ends at the first None.
StopAtNone(embs, i) ==
    IF i > Len(embs) THEN i
    ELSE IF embs[i] # NoVector THEN i
    ELSE Len(embs) + 1

\* The first vector at or after position i that is not None (lines 160-161).
RECURSIVE NextVector(_, _)
NextVector(embs, i) ==
    IF i > Len(embs) THEN i
    ELSE IF embs[i] # NoVector THEN i
    ELSE NextVector(embs, i + 1)

\* Lines 160-164: on to the query of the next vector, or to the keyword scan.
Enumerate(embs, i) ==
    LET j == NextVector(embs, i)
    IN  /\ exp_index' = j
        /\ IF j > Len(embs)
           THEN /\ s_pc' = "keyword"
                /\ knn_left' = 0
                /\ knn_queries' = knn_queries
           ELSE /\ s_pc' = "knn_expanded"
                /\ knn_left' = ExpandedK
                /\ knn_queries' = Append(knn_queries, j)
        /\ knn_used' = {}
        /\ knn_last' = 0

\* Lines 148-158: the rewrites are built and their embeddings requested.
Expand ==
    LET tasks == ExpandedTasks(question)
    IN  /\ expanded_tasks' = tasks
        /\ expanded_embeddings' = [i \in DOMAIN tasks |-> Pending]
        /\ completion' = <<>>
        /\ exp_index' = 0
        /\ knn_left' = 0
        /\ knn_used' = {}
        /\ knn_last' = 0
        /\ s_pc' = IF tasks = <<>> THEN "keyword" ELSE "gather"
        /\ knn_queries' = knn_queries

\* Lines 122-127: the counters, the empty pool, the embedding is requested.
Search ==
    /\ s_pc = "idle"
    /\ search_stats' = [search_stats EXCEPT !.total_searches = @ + 1]
    /\ all_results' = <<>>
    /\ seen_texts' = {}
    /\ s_pc' = "embed"
    /\ UNCHANGED <<metadata, question, top_k, expanded_tasks, expanded_embeddings,
                   completion, exp_index, knn_left, knn_used, knn_last, returned,
                   first_seen, produced, vector_best, knn_queries>>

\* Line 128: get_embedding(question) returned None; on to the rewrites.
DirectEmbeddingNone ==
    /\ s_pc = "embed"
    /\ Expand
    /\ UNCHANGED <<metadata, question, top_k, search_stats, all_results,
                   seen_texts, returned, first_seen, produced, vector_best>>

\* Lines 128-131: the vector arrived, knn_query(query_vector, k=top_k) is asked
\* (of a corpus that holds at least top_k fragments).
DirectEmbeddingOk ==
    /\ s_pc = "embed"
    /\ top_k <= Len(metadata)
    /\ s_pc' = "knn"
    /\ knn_left' = top_k
    /\ knn_used' = {}
    /\ knn_last' = 0
    /\ knn_queries' = Append(knn_queries, 0)
    /\ UNCHANGED <<metadata, question, top_k, search_stats, all_results,
                   seen_texts, expanded_tasks, expanded_embeddings, completion,
                   exp_index, returned, first_seen, produced, vector_best>>

\* The next (label, dist) of zip(labels[0], distances[0]): a label not yet
\* answered, no nearer than the match before it.  Fragments equal in text
\* and source are interchangeable: the least label not yet answered stands
\* for them.
NextMatches ==
    {<<label, dist>> \in (DOMAIN metadata \ knn_used) \X Distances :
        /\ dist >= knn_last
        /\ \A l \in DOMAIN metadata \ knn_used :
              metadata[l] = metadata[label] => label <= l}

\* Lines 133-145: one match of the direct query; after the last one, on to
\* the rewrites.
DirectMatch ==
    /\ s_pc = "knn"
    /\ \E m \in NextMatches :
          LET cand == Match(m[1], m[2], "direct")
              acc == Admit([pool |-> all_results, seen |-> seen_texts,
                            hits |-> search_stats.direct_hits], cand)
              hist == Produce([first |-> first_seen, by |-> produced], cand, 0)
          IN  /\ all_results' = acc.pool
              /\ seen_texts' = acc.seen
              /\ search_stats' = [search_stats EXCEPT !.direct_hits = acc.hits]
              /\ first_seen' = hist.first
              /\ produced' = hist.by
              /\ vector_best' = Answered(vector_best, cand)
              /\ IF knn_left = 1
                 THEN Expand
                 ELSE /\ knn_left' = knn_left - 1
                      /\ knn_used' = knn_used \cup {m[1]}
                      /\ knn_last' = m[2]
                      /\ UNCHANGED <<expanded_tasks, expanded_embeddings,
                                     completion, exp_index, s_pc, knn_queries>>
    /\ UNCHANGED <<metadata, question, top_k, returned>>

\* Line 158: one of the gathered get_embedding tasks completes, with a vector
\* or with None; gather returns once all have.
EmbeddingTaskDone ==
    /\ s_pc = "gather"
    /\ \E i \in DOMAIN expanded_embeddings :
          /\ expanded_embeddings[i] = Pending
          /\ \E r \in {Embedding(expanded_tasks[i]), NoVector} :
                LET results == [expanded_embeddings EXCEPT ![i] = r]
                    order == Append(completion, i)
                IN  /\ completion' = order
                    /\ IF \E j \in DOMAIN results : results[j] = Pending
                       THEN /\ expanded_embeddings' = results
                            /\ UNCHANGED <<exp_index, knn_left, knn_used,
                                           knn_last, s_pc, knn_queries>>
                       ELSE /\ expanded_embeddings' = GatherResults(results, order)
                            /\ Enumerate(expanded_embeddings', 1)
    /\ UNCHANGED <<metadata, question, top_k, search_stats, all_results,
                   seen_texts, expanded_tasks, returned, first_seen, produced,
                   vector_best>>

\* Lines 166-178: one match of the query of a rewrite; after the last one, on
\* to the next vector.
ExpandedMatch ==
    /\ s_pc = "knn_expanded"
    /\ \E m \in NextMatches :
          LET cand == Match(m[1], m[2], "expanded")
              acc0 == [pool |-> all_results, seen |-> seen_texts,
                       hits |-> search_stats.expanded_hits]
              hist0 == [first |-> first_seen, by |-> produced]
              passes == PassesThreshold(cand)
              acc == IF passes THEN Admit(acc0, cand) ELSE acc0
              hist == IF passes
                      THEN Produce(hist0, cand,
                                   QueryOf(expanded_embeddings[exp_index]))
                      ELSE hist0
          IN  /\ all_results' = acc.pool
              /\ seen_texts' = acc.seen
              /\ search_stats' = [search_stats EXCEPT !.expanded_hits = acc.hits]
              /\ first_seen' = hist.first
              /\ produced' = hist.by
              /\ vector_best' = Answered(vector_best, cand)
              /\ IF knn_left = 1
                 THEN Enumerate(expanded_embeddings, exp_index + 1)
                 ELSE /\ knn_left' = knn_left - 1
                      /\ knn_used' = knn_used \cup {m[1]}
                      /\ knn_last' = m[2]
                      /\ UNCHANGED <<exp_index, s_pc, knn_queries>>
    /\ UNCHANGED <<metadata, question, top_k, expanded_tasks,
                   expanded_embeddings, completion, returned>>

\* Lines 181-193: the keyword scan, its results pooled, the pool sorted and cut.
KeywordScan ==
    /\ s_pc = "keyword"
    /\ LET keywords == extract_keywords(question)
           keyword_results == IF keywords = {} THEN <<>>
                              ELSE keyword_search(keywords, 1)
           acc == AdmitAll([pool |-> all_results, seen |-> seen_texts,
                            hits |-> search_stats.keyword_hits], keyword_results)
           hist == ProduceAll([first |-> first_seen, by |-> produced],
                              keyword_results, 3)
       IN  /\ all_results' = SortDesc(acc.pool)
           /\ seen_texts' = acc.seen
           /\ search_stats' = [search_stats EXCEPT !.keyword_hits = acc.hits]
           /\ first_seen' = hist.first
           /\ produced' = hist.by
           /\ returned' = Take(all_results', top_k)
    /\ s_pc' = "done"
    /\ UNCHANGED <<metadata, question, top_k, expanded_tasks, expanded_embeddings,
                   completion, exp_index, knn_left, knn_used, knn_last,
                   vector_best, knn_queries>>

(***************************************************************************)
(* ContextBuilder.create_context                                           *)
(*                                                                         *)
(* Similarities are counted in thousandths here, the rendered ones in      *)
(* hundredths.                                                             *)
(***************************************************************************)
MaxResults == 3

ContextScale == 1000

\* ContextBuilder(max_context_length=32)
MaxContextLength == 32

\* [:10]
PerSourceCap == 10

\* The results create_context is called with: two sources, similarities
\* below, at and just above 0.2, and well above it.
ContextSimilarities == {199, 200, 203, 206, 500}

ContextResults ==
    [text : {"x", "y"}, source : {"a", "b"},
     similarity : ContextSimilarities, strategy : {"direct"}]

\* result["similarity"] > 0.2
AtLeastMinimum(sim) == 5 * sim >= ContextScale
AboveMinimum(sim) == 5 * sim > ContextScale

\* f"{similarity:.2f}": the nearest hundredth, a tie going to the even one.
TwoDecimals(sim) ==
    LET q == sim \div 10
        r == sim % 10
    IN  IF r > 5 \/ (r = 5 /\ q % 2 = 1) THEN q + 1 ELSE q

\* list(by_source.keys()): the sources in order of first occurrence.
RECURSIVE SourcesInOrder(_, _)
RECURSIVE SourcesByBest(_, _)
\* The sources in the order of their best result.
SourcesByBest(results, acc) ==
    IF results = <<>> THEN acc
    ELSE LET best == CHOOSE i \in DOMAIN results :
                        \A j \in DOMAIN results :
                            /\ results[i].similarity >= results[j].similarity
                            /\ results[i].similarity = results[j].similarity => i <= j
             src == results[best].source
         IN  SourcesByBest(SelectSeq(results, LAMBDA r : r.source # src),
                           Append(acc, src))

SourcesInOrder(results, acc) ==
    IF results = <<>> THEN acc
    ELSE SourcesInOrder(Tail(results),
                        IF Head(results).source \in Range(acc) THEN acc
                        ELSE Append(acc, Head(results).source))

\* by_source[source]
BySource(results, source) == SelectSeq(results, LAMBDA r : r.source = source)

\* One context part (lines 47-51).
Block(result) ==
    [source |-> result.source,
     relevance |-> TwoDecimals(result.similarity),
     text |-> result.text]

\* Lines 41-51 for one source: the best ten, those above 0.2 turned into parts.
PartsOf(results) ==
    LET best_results == Take(SortDesc(results), PerSourceCap)
        kept == SelectSeq(best_results, LAMBDA r : AboveMinimum(r.similarity))
    IN  [i \in DOMAIN kept |-> Block(kept[i])]

RECURSIVE PartsFrom(_, _)
PartsFrom(results, srcs) ==
    IF srcs = <<>> THEN <<>>
    ELSE PartsOf(BySource(results, Head(srcs)))
            \o PartsFrom(results, Tail(srcs))

\* create_context(search_results, question); the question is not used.
create_context(results, max_length) ==
    IF results = <<>> THEN <<>>
    ELSE Take(PartsFrom(results, SourcesInOrder(results, <<>>)), max_length)

\* extract_sources: limit = 5
SourceLimit == 5

\* Result lists that fill one source beyond the cap: ten results of source
\* "a" at 0.5 between a first and a last result of either source.
TenOfOneSource ==
    [i \in 1..PerSourceCap |->
        [text |-> "x", source |-> "a", similarity |-> 500, strategy |-> "direct"]]

LongResults ==
    {<<first>> \o TenOfOneSource \o <<last>> :
        first, last \in {r \in ContextResults : r.text = "y"}}

ContextInit ==
    /\ search_results \in SeqsUpTo(ContextResults, MaxResults) \cup LongResults
    /\ max_context_length \in {2, MaxContextLength}
    /\ context = <<>>
    /\ ctx_pc = "call"
    /\ src_limit = SourceLimit
    /\ src_pc = "off"

ContextIdle ==
    /\ search_results = <<>>
    /\ max_context_length = MaxContextLength
    /\ context = <<>>
    /\ ctx_pc = "off"
    /\ src_limit = SourceLimit
    /\ src_pc = "off"

CreateContext ==
    /\ ctx_pc = "call"
    /\ context' = create_context(search_results, max_context_length)
    /\ ctx_pc' = "done"
    /\ UNCHANGED <<search_results, max_context_length, src_limit, src_pc>>

(***************************************************************************)
(* TelegramBot.handle_message, lines 137-170: the citation markers of the  *)
(* full answer are renumbered and linked.  Texts are sequences of          *)
(* characters; a url is one character here.                                *)
(***************************************************************************)
MaxPieces == 3

DigitChars == <<"0", "1", "2", "3", "4", "5", "6", "7", "8", "9">>

\* \d
IsDigit(c) == \E d \in DOMAIN DigitChars : DigitChars[d] = c

DigitValue(c) == (CHOOSE d \in DOMAIN DigitChars : DigitChars[d] = c) - 1

\* int(old_num)
RECURSIVE ToInt(_)
ToInt(digits) ==
    IF digits = <<>> THEN 0
    ELSE 10 * ToInt(SubSeq(digits, 1, Len(digits) - 1))
            + DigitValue(digits[Len(digits)])

\* f"{new_num}"
RECURSIVE ToDigits(_)
ToDigits(n) ==
    IF n < 10 THEN <<DigitChars[n + 1]>>
    ELSE ToDigits(n \div 10) \o <<DigitChars[(n % 10) + 1]>>

\* The end of the digits that start at position i.
RECURSIVE DigitsEnd(_, _)
DigitsEnd(str, i) ==
    IF i <= Len(str) /\ IsDigit(str[i]) THEN DigitsEnd(str, i + 1) ELSE i - 1

\* r"\[(\d+)\]" matched at position i: the position of the closing bracket,
\* or 0 when the pattern does not match there.
MatchEnd(str, i) ==
    IF str[i] # "[" THEN 0
    ELSE LET e == DigitsEnd(str, i + 1)
         IN  IF e >= i + 1 /\ e + 1 <= Len(str) /\ str[e + 1] = "]"
             THEN e + 1 ELSE 0

\* re.findall(r"\[(\d+)\]", full_response): the groups of the matches, left
\* to right, without overlap.
RECURSIVE FindAll(_, _)
FindAll(str, i) ==
    IF i > Len(str) THEN <<>>
    ELSE LET e == MatchEnd(str, i)
         IN  IF e = 0 THEN FindAll(str, i + 1)
             ELSE <<SubSeq(str, i + 1, e - 1)>> \o FindAll(str, e + 1)

\* Lines 142-145: the distinct citations in order of first appearance.
RECURSIVE UniqueCitations(_, _)
UniqueCitations(citations, acc) ==
    IF citations = <<>> THEN acc
    ELSE UniqueCitations(Tail(citations),
                         IF Head(citations) \in Range(acc) THEN acc
                         ELSE Append(acc, Head(citations)))

\* citation_mapping: old -> i + 1
CitationMapping(unique_citations) ==
    [old \in Range(unique_citations) |->
        CHOOSE i \in DOMAIN unique_citations : unique_citations[i] = old]

\* A range check that stops one short of the list.
BelowLen(n, srcs) == 1 <= n /\ n < Len(srcs)

\* "if 1 <= old_num_int <= len(sources)"
InRange(n, srcs) == 1 <= n /\ n <= Len(srcs)

\* A url_mapping that looks the url up by the new number.
UrlMappingByNew(mapping, srcs) ==
    [new \in {mapping[old] : old \in {o \in DOMAIN mapping : InRange(mapping[o], srcs)}}
        |-> srcs[new]]

\* url_mapping: new number -> url, for the citations whose old number is a
\* position of sources (sources[old_num_int - 1]["url"], 0-based in the code).
UrlMapping(mapping, srcs) ==
    [new \in {mapping[old] : old \in {o \in DOMAIN mapping : InRange(ToInt(o), srcs)}}
        |-> srcs[ToInt(CHOOSE o \in DOMAIN mapping : mapping[o] = new)]]

\* replace_citation(match) for the group old (lines 159-167).
Replacement(old, mapping, urls) ==
    IF old \in DOMAIN mapping
    THEN LET new_num == mapping[old]
         IN  IF new_num \in DOMAIN urls
             THEN <<"\\", "[", "[">> \o ToDigits(new_num)
                     \o <<"]", "(", urls[new_num], ")", "]">>
             ELSE <<"[">> \o ToDigits(new_num) \o <<"]">>
    ELSE <<"[">> \o old \o <<"]">>

\* re.sub(r"\[(\d+)\]", replace_citation, full_response)
RECURSIVE Sub(_, _, _, _)
Sub(str, i, mapping, urls) ==
    IF i > Len(str) THEN <<>>
    ELSE LET e == MatchEnd(str, i)
         IN  IF e = 0 THEN <<str[i]>> \o Sub(str, i + 1, mapping, urls)
             ELSE Replacement(SubSeq(str, i + 1, e - 1), mapping, urls)
                     \o Sub(str, e + 1, mapping, urls)

\* The text as the model wrote it.
Unprocessed(str, srcs) == str

\* Lines 139-170.
ProcessedResponse(str, srcs) ==
    LET citations == FindAll(str, 1)
        unique_citations == UniqueCitations(citations, <<>>)
        citation_mapping == CitationMapping(unique_citations)
        url_mapping == UrlMapping(citation_mapping, srcs)
    IN  Sub(str, 1, citation_mapping, url_mapping)

\* The pieces answers are put together from: plain text, markers in and out
\* of range, with a leading zero, brackets and the start of a link target.
Pieces ==
    {<<"a">>, <<"[", "1", "]">>, <<"[", "2", "]">>, <<"[", "0", "1", "]">>,
     <<"[", "0", "]">>, <<"[", "9", "]">>, <<"[", "1", "0", "]">>,
     <<"[">>, <<"]">>, <<"(", "v", ")">>, <<"[", "]">>, <<"1">>}

RECURSIVE Concat(_)
Concat(pieces) == IF pieces = <<>> THEN <<>> ELSE Head(pieces) \o Concat(Tail(pieces))

\* "A[3] B[1] C[3] D[9]"
AnswerOutOfOrder ==
    <<"A", "[", "3", "]", " ", "B", "[", "1", "]", " ",
      "C", "[", "3", "]", " ", "D", "[", "9", "]">>

Answers == {Concat(ps) : ps \in SeqsUpTo(Pieces, MaxPieces)} \cup {AnswerOutOfOrder}

\* The urls of the source list: none, one or two.
SourceLists == {<<>>, <<"u1">>, <<"u1", "u2">>}

CiteInit ==
    /\ full_response \in Answers
    /\ sources \in SourceLists
    /\ processed_response = <<>>
    /\ cite_pc = "call"

CiteIdle ==
    /\ full_response = <<>>
    /\ sources = <<>>
    /\ processed_response = <<>>
    /\ cite_pc = "off"

\* Lines 137-170, after the stream has ended.
RenderCitations ==
    /\ cite_pc = "call"
    /\ processed_response' = ProcessedResponse(full_response, sources)
    /\ cite_pc' = "done"
    /\ UNCHANGED <<full_response, sources>>

(***************************************************************************)
(* TelegramBot.handle_message and error_handler: one question              *)
(***************************************************************************)
MaxBotResults == 2
MaxChunks == 2
UpdateEvery == 50

NoError == ""

\* str(e) of the exceptions the libraries raise: hnswlib's knn_query and
\* the Telegram API.
Errors ==
    {"Cannot return the results in a contigious 2D array. Probably ef or M is too small",
     "Can't parse entities: can't find end of the entity starting at byte offset 1"}

\* The fixed texts of the handler, each taken as one unit.
NotFoundText == "Ne udalos' najti relevantnuyu informaciyu po vashemu zaprosu."
NotRelevantText == "Najdennaya informaciya nedostatochno relevantna dlya otveta."
ProgressText == "..."
ErrorPrefix == "Proizoshla oshibka pri obrabotke vashego zaprosa: "
ErrorSuffix == "Pozhalujsta, poprobujte esche raz pozzhe ili obratites' k administratoru."
HandlerText == "Proizoshla oshibka pri obrabotke vashego zaprosa. Pozhalujsta, poprobujte pozzhe."
\* AIClient.stream_completion: f"Oshibka pri zaprose k LLM: {e}"
LlmErrorPrefix == "Oshibka pri zaprose k LLM: "

Reply(text) == [method |-> "reply_text", text |-> text, parse_mode |-> ""]
EditMessage(text) == [method |-> "edit_message_text", text |-> text, parse_mode |-> ""]
SendMessage(text) == [method |-> "send_message", text |-> text, parse_mode |-> ""]
\* The final edit: parse_mode="markdown"
EditMarkdown(text) ==
    [method |-> "edit_message_text", text |-> text, parse_mode |-> "markdown"]

\* What search can return to the handler: distinct texts, best first.
\* Six results (top_k is 8) of six sources, the greatest source first.
SixSources ==
    [i \in 1..6 |->
        [text |-> <<"x1", "x2", "x3", "x4", "x5", "x6">>[i],
         source |-> <<"f", "e", "d", "c", "b", "a">>[i],
         similarity |-> 500, strategy |-> "direct"]]

SearchOutputs ==
    {r \in SeqsUpTo([text : {"x", "y"}, source : {"a", "b"},
                     similarity : {200, 500}, strategy : {"direct"}],
                    MaxBotResults) :
        \A i, j \in DOMAIN r :
            i < j => r[i].text # r[j].text /\ r[i].similarity >= r[j].similarity}
        \cup {SixSources}

\* The sources of the model in lexicographic order.
SourceOrder == <<"a", "b", "c", "d", "e", "f">>

\* A sort that yields the greatest source first.
SortedDescending(all_sources) ==
    LET last == Len(SourceOrder) + 1
    IN  SelectSeq([i \in DOMAIN SourceOrder |-> SourceOrder[last - i]],
                  LAMBDA src : src \in all_sources)

\* sorted(list(all_sources))
Sorted(all_sources) == SelectSeq(SourceOrder, LAMBDA src : src \in all_sources)

\* ContextBuilder.extract_sources, the "url" of each entry ("name" is only
\* printed in the prompt).
extract_sources(results, limit) ==
    Take(Sorted({results[i].source : i \in DOMAIN results}), limit)

\* extract_sources called on its own: results of three sources in any order,
\* and a limit below, at and above the number of sources.
MaxSourceResults == 3

SourceResults ==
    [text : {"x"}, source : {"a", "b", "c"}, similarity : {200, 500},
     strategy : {"direct"}]

Limits == {1, 2, SourceLimit}

SourcesInit ==
    /\ search_results \in SeqsUpTo(SourceResults, MaxSourceResults)
    /\ src_limit \in Limits
    /\ sources = <<>>
    /\ src_pc = "call"

ExtractSources ==
    /\ src_pc = "call"
    /\ sources' = extract_sources(search_results, src_limit)
    /\ src_pc' = "done"
    /\ UNCHANGED <<search_results, src_limit>>

\* The chunks a stream is made of: a word, a line break, a citation marker.
StreamChunks == {<<"w">>, <<"\n">>, <<"[", "2", "]">>}

\* Short streams, and streams of 50 and 51 words, also after a line break.
Streams ==
    SeqsUpTo(StreamChunks, MaxChunks)
        \cup {first \o [i \in 1..n |-> <<"w">>] :
                 first \in {<<>>, <<<<"\n">>>>}, n \in {UpdateEvery, UpdateEvery + 1}}

BotInit ==
    /\ bot_pc = "typing"
    /\ stream = <<>>
    /\ received = <<>>
    /\ snapshot_attempts = <<>>
    /\ message_update_counter = 0
    /\ sent = <<>>
    /\ completion_calls = 0
    /\ error = NoError

BotIdle ==
    /\ bot_pc = "off"
    /\ stream = <<>>
    /\ received = <<>>
    /\ snapshot_attempts = <<>>
    /\ message_update_counter = 0
    /\ sent = <<>>
    /\ completion_calls = 0
    /\ error = NoError

\* Line 64, before the try.
SendChatAction ==
    /\ bot_pc = "typing"
    /\ bot_pc' = "search"
    /\ UNCHANGED <<stream, received, snapshot_attempts, message_update_counter,
                   sent, completion_calls, error,
                   search_results, context, full_response, sources,
                   processed_response>>

\* Line 64 raises: the application hands the exception to error_handler.
SendChatActionRaises ==
    /\ bot_pc = "typing"
    /\ \E e \in Errors : error' = e
    /\ bot_pc' = "error_handler"
    /\ UNCHANGED <<stream, received, snapshot_attempts, message_update_counter,
                   sent, completion_calls,
                   search_results, context, full_response, sources,
                   processed_response>>

\* error_handler (lines 188-202): the fixed message, or nothing when sending
\* it fails.
ErrorHandler ==
    /\ bot_pc = "error_handler"
    /\ \/ sent' = Append(sent, SendMessage(<<HandlerText>>))
       \/ sent' = sent
    /\ bot_pc' = "done"
    /\ UNCHANGED <<stream, received, snapshot_attempts, message_update_counter,
                   completion_calls, error,
                   search_results, context, full_response, sources,
                   processed_response>>

\* Line 69: search returns.
SearchReturns ==
    /\ bot_pc = "search"
    /\ search_results' \in SearchOutputs
    /\ bot_pc' = "results"
    /\ UNCHANGED <<stream, received, snapshot_attempts, message_update_counter,
                   sent, completion_calls, error,
                   context, full_response, sources, processed_response>>

\* Line 69: search raises.
SearchRaises ==
    /\ bot_pc = "search"
    /\ \E e \in Errors : error' = e
    /\ bot_pc' = "except"
    /\ UNCHANGED <<stream, received, snapshot_attempts, message_update_counter,
                   sent, completion_calls,
                   search_results, context, full_response, sources,
                   processed_response>>

\* Lines 71-76.
NoResults ==
    /\ bot_pc = "results"
    /\ search_results = <<>>
    /\ sent' = Append(sent, Reply(<<NotFoundText>>))
    /\ bot_pc' = "done"
    /\ UNCHANGED <<stream, received, snapshot_attempts, message_update_counter,
                   completion_calls, error,
                   search_results, context, full_response, sources,
                   processed_response>>

\* Lines 79-87: "if not context_for_llm.strip()".
ContextEmpty ==
    /\ bot_pc = "results"
    /\ search_results # <<>>
    /\ context' = create_context(search_results, max_context_length)
    /\ context' = <<>>
    /\ sent' = Append(sent, Reply(<<NotRelevantText>>))
    /\ bot_pc' = "done"
    /\ UNCHANGED <<stream, received, snapshot_attempts, message_update_counter,
                   completion_calls, error,
                   search_results, full_response, sources, processed_response>>

\* Lines 79-120: the context is not empty; the progress message is sent and
\* stream_completion is called.
StartStream ==
    /\ bot_pc = "results"
    /\ search_results # <<>>
    /\ context' = create_context(search_results, max_context_length)
    /\ context' # <<>>
    /\ sources' = extract_sources(search_results, SourceLimit)
    /\ sent' = Append(sent, Reply(<<ProgressText>>))
    /\ full_response' = <<>>
    /\ message_update_counter' = 0
    /\ completion_calls' = completion_calls + 1
    /\ stream' \in Streams
    /\ bot_pc' = "stream"
    /\ UNCHANGED <<received, snapshot_attempts, error, search_results,
                   processed_response>>

\* Only the count of chunks asks for a snapshot.
CountDue(counter, response_chunk) == counter >= UpdateEvery

\* Line 125: if message_update_counter >= 50 or "\n" in response_chunk
SnapshotDue(counter, response_chunk) ==
    counter >= UpdateEvery \/ "\n" \in Range(response_chunk)

\* Lines 121-135 for one chunk: the edit of the progress message is
\* delivered, or raises and is only logged.
Receive(response_chunk, rest) ==
    LET text == full_response \o response_chunk
        counter == message_update_counter + 1
        at == Len(received) + 1
    IN  /\ full_response' = text
        /\ stream' = rest
        /\ received' = Append(received, response_chunk)
        /\ IF SnapshotDue(counter, response_chunk)
           THEN \/ /\ sent' = Append(sent, EditMessage(text))
                   /\ message_update_counter' = 0
                   /\ snapshot_attempts' =
                        Append(snapshot_attempts, [at |-> at, delivered |-> TRUE])
                \/ /\ sent' = sent
                   /\ message_update_counter' = counter
                   /\ snapshot_attempts' =
                        Append(snapshot_attempts, [at |-> at, delivered |-> FALSE])
           ELSE /\ sent' = sent
                /\ message_update_counter' = counter
                /\ snapshot_attempts' = snapshot_attempts
        /\ UNCHANGED <<bot_pc, completion_calls, error, search_results, context,
                       sources, processed_response>>

ReceiveChunk ==
    /\ bot_pc = "stream"
    /\ stream # <<>>
    /\ Receive(Head(stream), Tail(stream))

\* AIClient.stream_completion, lines 249-252: the request fails; the error
\* message is yielded as the last chunk.
CompletionFails ==
    /\ bot_pc = "stream"
    /\ stream # <<>>
    /\ \E e \in Errors : Receive(<<LlmErrorPrefix, e>>, <<>>)

\* Lines 137-179: the stream has ended; the citations are renumbered and the
\* final edit is delivered.
FinalEdit ==
    /\ bot_pc = "stream"
    /\ stream = <<>>
    /\ processed_response' = ProcessedResponse(full_response, sources)
    /\ sent' = Append(sent, EditMarkdown(processed_response'))
    /\ bot_pc' = "done"
    /\ UNCHANGED <<stream, received, snapshot_attempts, message_update_counter,
                   completion_calls, error,
                   search_results, context, full_response, sources>>

\* Lines 137-179: the final edit raises.
FinalEditRaises ==
    /\ bot_pc = "stream"
    /\ stream = <<>>
    /\ processed_response' = ProcessedResponse(full_response, sources)
    /\ \E e \in Errors : error' = e
    /\ bot_pc' = "except"
    /\ UNCHANGED <<stream, received, snapshot_attempts, message_update_counter,
                   sent, completion_calls,
                   search_results, context, full_response, sources>>

\* Lines 181-186.
Except ==
    /\ bot_pc = "except"
    /\ sent' = Append(sent, Reply(<<ErrorPrefix, error, ErrorSuffix>>))
    /\ bot_pc' = "done"
    /\ UNCHANGED <<stream, received, snapshot_attempts, message_update_counter,
                   completion_calls, error,
                   search_results, context, full_response, sources,
                   processed_response>>

(***************************************************************************)
(* Several questions in flight: SearchEngine.search and                    *)
(* AIClient.get_embedding as seen from the objects that all questions use  *)
(***************************************************************************)
MaxQuestions == 2
MaxHits == 1

QuestionIds == 1..MaxQuestions

\* self.stats of AIClient after __init__ (the counter get_embedding uses)
NoClientStats == [embedding_calls |-> 0]

Access(object, q, kind) == [object |-> object, question |-> q, kind |-> kind]

\* The accesses of one step of question q.
Touch(q, written, read) ==
    accesses' = accesses \cup {Access(o, q, "write") : o \in written}
                         \cup {Access(o, q, "read") : o \in read}

\* self.stats[...] += 1, once per admitted result.
Counted(hits) == IF hits > 0 THEN {"SearchEngine.stats"} ELSE {}

SharedInit ==
    /\ in_flight = [q \in QuestionIds |-> "new"]
    /\ engine_stats = NoStats
    /\ client_stats = NoClientStats
    /\ accesses = {}

SharedIdle ==
    /\ in_flight = <<>>
    /\ engine_stats = NoStats
    /\ client_stats = NoClientStats
    /\ accesses = {}

\* search, lines 122-127, and get_embedding, line 71, up to the request.
BeginSearch ==
    \E q \in QuestionIds :
        /\ in_flight[q] = "new"
        /\ engine_stats' = [engine_stats EXCEPT !.total_searches = @ + 1]
        /\ client_stats' = [client_stats EXCEPT !.embedding_calls = @ + 1]
        /\ Touch(q, {"SearchEngine.stats", "AIClient.stats"}, {})
        /\ in_flight' = [in_flight EXCEPT ![q] = "embed"]

\* Lines 148-158: n rewrites are embedded (get_embedding, line 71, once per
\* task), or none and the keyword scan is next.
ExpandShared(q, n, written, read) ==
    /\ client_stats' = [client_stats EXCEPT !.embedding_calls = @ + n]
    /\ Touch(q, written \cup (IF n > 0 THEN {"AIClient.stats"} ELSE {}), read)
    /\ in_flight' = [in_flight EXCEPT ![q] = IF n > 0 THEN "gather" ELSE "keyword"]

\* Lines 128-131: the vector arrived; knn_query runs on self.index.
QuestionVector ==
    \E q \in QuestionIds :
        /\ in_flight[q] = "embed"
        /\ Touch(q, {}, {"index"})
        /\ in_flight' = [in_flight EXCEPT ![q] = "knn"]
        /\ UNCHANGED <<engine_stats, client_stats>>

\* Line 128: get_embedding returned None; on to the rewrites.
QuestionNoVector ==
    \E q \in QuestionIds, n \in 0..2 :
        /\ in_flight[q] = "embed"
        /\ ExpandShared(q, n, {}, {})
        /\ UNCHANGED engine_stats

\* Lines 133-158: the matches are read from self.metadata and counted in
\* direct_hits; then the rewrites.
DirectAnswered ==
    \E q \in QuestionIds, hits \in 0..MaxHits, n \in 0..2 :
        /\ in_flight[q] = "knn"
        /\ engine_stats' = [engine_stats EXCEPT !.direct_hits = @ + hits]
        /\ ExpandShared(q, n, Counted(hits), {"metadata"})

\* Lines 158-164: gather returned; knn_query of a rewrite runs on self.index,
\* or every vector is None.
GatherReturned ==
    \E q \in QuestionIds :
        /\ in_flight[q] = "gather"
        /\ \/ /\ Touch(q, {}, {"index"})
              /\ in_flight' = [in_flight EXCEPT ![q] = "knn_expanded"]
           \/ /\ accesses' = accesses
              /\ in_flight' = [in_flight EXCEPT ![q] = "keyword"]
        /\ UNCHANGED <<engine_stats, client_stats>>

\* Lines 166-178: the matches of the rewrites, counted in expanded_hits.
ExpandedAnswered ==
    \E q \in QuestionIds, hits \in 0..MaxHits :
        /\ in_flight[q] = "knn_expanded"
        /\ engine_stats' = [engine_stats EXCEPT !.expanded_hits = @ + hits]
        /\ Touch(q, Counted(hits), {"metadata"})
        /\ in_flight' = [in_flight EXCEPT ![q] = "keyword"]
        /\ UNCHANGED client_stats

\* Lines 181-193: keyword_search reads self.metadata; its results are counted
\* in keyword_hits.
KeywordAnswered ==
    \E q \in QuestionIds, hits \in 0..MaxHits :
        /\ in_flight[q] = "keyword"
        /\ engine_stats' = [engine_stats EXCEPT !.keyword_hits = @ + hits]
        /\ Touch(q, Counted(hits), {"metadata"})
        /\ in_flight' = [in_flight EXCEPT ![q] = "done"]
        /\ UNCHANGED client_stats

(***************************************************************************)
(* Claims about split_text (checked under SpecChunk)                       *)
(***************************************************************************)
Last(s) == s[Len(s)]

IsSuffixOf(s, t) ==
    /\ Len(s) <= Len(t)
    /\ s = SubSeq(t, Len(t) - Len(s) + 1, Len(t))

\* The sentences chunk c+1 shares with chunk c: the overlap seeded from chunk c.
Seed(c) == SelectSeq(chunks[c + 1], LAMBDA p : p <= Last(chunks[c]))

\* The start positions (within chunk) of the suffixes of chunk whose summed
\* sentence length is at least overlap.
ReachingSuffixStarts(chunk, overlap) ==
    {j \in DOMAIN chunk :
        CurrentLength(sentences, SubSeq(chunk, j, Len(chunk))) >= overlap}

Max(S) == CHOOSE x \in S : \A y \in S : y <= x

ShortestReachingSuffix(chunk, overlap) ==
    SubSeq(chunk, Max(ReachingSuffixStarts(chunk, overlap)), Len(chunk))

\* A sentence longer than chunk_size is in chunk c or is the sentence that
\* closed it.
OversizedBreak(c) ==
    \/ \E k \in DOMAIN chunks[c] : sentences[chunks[c][k]] > chunk_size
    \/ sentences[Last(chunks[c]) + 1] > chunk_size

\* C6: every returned chunk string is at most chunk_size long, unless one of
\* its sentences alone is longer than chunk_size.
ChunkWithinSize ==
    split_pc = "done" =>
        \A c \in DOMAIN chunks :
            \/ JoinLen(sentences, chunks[c]) <= chunk_size
            \/ \E k \in DOMAIN chunks[c] : sentences[chunks[c][k]] > chunk_size

\* C7: every sentence is in at least one chunk, the sentences of a chunk keep
\* their original order, empty input gives no chunks, and no chunk is empty.
ChunkCoverage ==
    split_pc = "done" =>
        /\ \A i \in DOMAIN sentences : \E c \in DOMAIN chunks : i \in Range(chunks[c])
        /\ \A c \in DOMAIN chunks :
              /\ chunks[c] # <<>>
              /\ JoinLen(sentences, chunks[c]) >= 1
              /\ \A k \in 1..(Len(chunks[c]) - 1) : chunks[c][k] < chunks[c][k + 1]
        /\ (text_empty \/ sentences = <<>>) => chunks = <<>>

ChunkCoverageWitness ==
    /\ split_pc = "done"
    /\ Len(chunks) >= 2
    /\ \E c \in DOMAIN chunks : Len(chunks[c]) >= 2

\* C8 as stated: for chunk_overlap > 0 every chunk c+1 starts with the
\* shortest suffix of chunk c whose summed sentence length is >= chunk_overlap
\* (at least one sentence), followed by the sentence that closed chunk c,
\* unless an oversized sentence forced the break.
OverlapSeedIsReachingSuffix ==
    (split_pc = "done" /\ chunk_overlap > 0) =>
        \A c \in 1..(Len(chunks) - 1) :
            OversizedBreak(c) \/
            /\ Seed(c) # <<>>
            /\ ReachingSuffixStarts(chunks[c], chunk_overlap) # {}
            /\ Seed(c) = ShortestReachingSuffix(chunks[c], chunk_overlap)
            /\ SubSeq(chunks[c + 1], 1, Len(Seed(c)) + 1)
                   = Seed(c) \o <<Last(chunks[c]) + 1>>

\* C8 amended: for chunk_overlap > 0 every chunk c+1 starts with at least one
\* trailing sentence of chunk c: the shortest suffix of chunk c whose summed
\* sentence length is >= chunk_overlap, or the whole of chunk c when its
\* summed sentence length is below chunk_overlap; then comes the sentence
\* that closed chunk c.
OverlapSeedOrWholeChunk ==
    (split_pc = "done" /\ chunk_overlap > 0) =>
        \A c \in 1..(Len(chunks) - 1) :
            /\ Seed(c) # <<>>
            /\ IsSuffixOf(Seed(c), chunks[c])
            /\ Seed(c) =
                  IF ReachingSuffixStarts(chunks[c], chunk_overlap) # {}
                  THEN ShortestReachingSuffix(chunks[c], chunk_overlap)
                  ELSE chunks[c]
            /\ SubSeq(chunks[c + 1], 1, Len(Seed(c)) + 1)
                   = Seed(c) \o <<Last(chunks[c]) + 1>>

OverlapSeedWitness ==
    /\ split_pc = "done"
    /\ chunk_overlap > 0
    /\ Len(chunks) >= 3
    /\ \E c \in 1..(Len(chunks) - 1) :
          /\ ReachingSuffixStarts(chunks[c], chunk_overlap) # {}
          /\ Len(Seed(c)) < Len(chunks[c])
    /\ \E c \in 1..(Len(chunks) - 1) :
          /\ ReachingSuffixStarts(chunks[c], chunk_overlap) = {}
          /\ Seed(c) = chunks[c]

(***************************************************************************)
(* Claims about get_embeddings (checked under SpecEmbed)                   *)
(***************************************************************************)
Returned(c) == c.outcome = "returned"

\* The vector of text t for call c: the cached one when the loaded cache has
\* t, else the zero vector when t's batch exhausted its retries, else the
\* vector the service answers for t.
VectorOf(c, t) ==
    IF CacheHit(c.loaded, t) THEN c.loaded[Hash(t)]
    ELSE IF t \in c.exhausted THEN ZeroVec
    ELSE ServiceVec(c.model, t)

\* The number of places a text has in the batches of a call.
PlacesInBatches(c, t) ==
    Cardinality({<<b, k>> \in (DOMAIN c.batches) \X (1..MaxTexts + 1) :
                    k \in DOMAIN c.batches[b] /\ c.batches[b][k] = t})

\* C9: a call that returns gives len(texts) vectors, vector i is the vector of
\* texts[i], equal texts get equal vectors, and every text missing from the
\* cache was sent in exactly one batch (a cached text in none).
EmbeddingsAligned ==
    \A n \in DOMAIN calls :
        LET c == calls[n] IN
        Returned(c) =>
            /\ Len(c.result) = Len(c.texts)
            /\ \A i \in DOMAIN c.texts : c.result[i] = VectorOf(c, c.texts[i])
            /\ \A i, j \in DOMAIN c.texts :
                  c.texts[i] = c.texts[j] => c.result[i] = c.result[j]
            /\ \A t \in Range(c.texts) :
                  PlacesInBatches(c, t) = IF CacheHit(c.loaded, t) THEN 0 ELSE 1

\* A returned call with a missing text at two positions, one batch that
\* exhausted its retries and one that succeeded.
EmbeddingsAlignedWitness ==
    \E n \in DOMAIN calls :
        LET c == calls[n] IN
        /\ Returned(c)
        /\ Len(c.batches) = 2
        /\ \E i, j \in DOMAIN c.texts :
              /\ i # j
              /\ c.texts[i] = c.texts[j]
              /\ ~CacheHit(c.loaded, c.texts[i])
        /\ \E i, j \in DOMAIN c.texts :
              /\ c.result[i] = ZeroVec /\ c.texts[i] \in c.exhausted
              /\ c.result[j] = ServiceVec(c.model, c.texts[j])

\* C10: of two successive calls with the same texts and model, both return
\* the same vectors, and the second issues no more remote fetch calls than
\* the first, none at all when the first call completed.
CacheIdempotent ==
    Len(calls) >= 2 =>
        /\ (Returned(calls[1]) /\ Returned(calls[2]))
              => calls[1].result = calls[2].result
        /\ calls[2].api_calls <= calls[1].api_calls
        /\ Returned(calls[1]) => calls[2].api_calls = 0

\* self.stats when call n began.
StatsBefore(n) == IF n = 1 THEN NoEmbedStats ELSE calls[n - 1].stats

\* The cache file the call found was written under another model identifier
\* than the active one.
WrittenUnderOther(c) ==
    c.file.exists /\ c.file.model \in Models /\ c.file.model # c.model

\* C11: a call that finds a cache file written under another model
\* identifier than the active one loads nothing from it: every text is
\* counted as a miss and none as a hit, the texts are posted to the service
\* again (each in exactly one batch when the call returns), and every
\* returned vector is the service's answer under the active model or the
\* zero vector of an exhausted batch, never a stored one.
ModelChangeInvalidates ==
    \A n \in DOMAIN calls :
        LET c == calls[n] IN
        WrittenUnderOther(c) =>
            /\ c.loaded = EmptyDict
            /\ c.stats.cache_misses = StatsBefore(n).cache_misses + Len(c.texts)
            /\ c.stats.cache_hits = StatsBefore(n).cache_hits
            /\ c.texts # <<>> => c.api_calls >= 1
            /\ Returned(c) =>
                  \A i \in DOMAIN c.texts :
                      /\ PlacesInBatches(c, c.texts[i]) = 1
                      /\ c.result[i] = IF c.texts[i] \in c.exhausted THEN ZeroVec
                                       ELSE ServiceVec(c.model, c.texts[i])

\* A returned call whose texts were all stored in the file under the other
\* model, with their vectors of that model.
ModelChangeInvalidatesWitness ==
    \E n \in DOMAIN calls :
        LET c == calls[n] IN
        /\ WrittenUnderOther(c)
        /\ Returned(c)
        /\ Len(c.texts) >= 2
        /\ c.exhausted = {}
        /\ \A i \in DOMAIN c.texts :
              /\ Hash(c.texts[i]) \in DOMAIN c.file.embeddings
              /\ c.file.embeddings[Hash(c.texts[i])]
                    = ServiceVec(c.file.model, c.texts[i])

\* C12: a batch whose request fails transiently (network error or error
\* status) is attempted at most max_retries times, with 2^attempt seconds
\* between attempts; when every attempt fails its texts get the zero vector
\* and get_embeddings returns: no call ends by raising.
TransientFailureDegrades ==
    \A n \in DOMAIN calls :
        LET c == calls[n] IN
        /\ Returned(c)
        /\ \A b \in DOMAIN c.waits :
              /\ Len(c.waits[b]) + 1 <= c.max_retries
              /\ \A k \in DOMAIN c.waits[b] : c.waits[b][k] = 2 ^ (k - 1)
        /\ \A i \in DOMAIN c.result :
              c.texts[i] \in c.exhausted => c.result[i] = ZeroVec

\* self.stats at the end of call n when every batch it posted succeeds at
\* once: the hits and misses of the cache check, one api call and the tokens
\* of every batch.
StatsOnSuccess(n) ==
    LET c == calls[n]
        before == StatsBefore(n)
        hits == Cardinality({i \in DOMAIN c.texts : CacheHit(c.loaded, c.texts[i])})
    IN  [api_calls |-> before.api_calls + Len(c.batches),
         cache_hits |-> before.cache_hits + hits,
         cache_misses |-> before.cache_misses + (Len(c.texts) - hits),
         total_tokens |-> before.total_tokens
                            + SumSeq([b \in DOMAIN c.batches |-> TokensOf(c.batches[b])])]

\* C13: after a call that returned with a batch fallen back to zero vectors,
\* the statistics differ from those of the same call with that batch
\* succeeding.
FallbackVisibleInStats ==
    \A n \in DOMAIN calls :
        (Returned(calls[n]) /\ calls[n].exhausted # {})
            => calls[n].stats # StatsOnSuccess(n)

\* The cache file as call n left it.
FileAfter(n) == IF n < Len(calls) THEN calls[n + 1].file ELSE cache_file

\* What the one write of call c stores: what it loaded and every text of the
\* call, under the active model.
KeysAfter(c) == DOMAIN c.loaded \cup {Hash(t) : t \in Range(c.texts)}

\* C23: every get_embeddings call persists the cache: it leaves the cache
\* file written under the active model, holding what the call loaded and
\* every text it fetched.
OneWritePerCall ==
    \A n \in DOMAIN calls :
        LET c == calls[n]
            f == FileAfter(n)
        IN  /\ f.exists
            /\ f.model = c.model
            /\ DOMAIN f.embeddings = KeysAfter(c)
            /\ \A h \in DOMAIN c.loaded : f.embeddings[h] = c.loaded[h]

\* The zero vectors of call n are on disk under its model, and call m, a
\* later one with the same model, takes them from the cache.
ZerosServedFromCache(n, m) ==
    LET c == calls[n]
        d == calls[m]
    IN  \A t \in c.exhausted :
            /\ FileAfter(n).exists
            /\ FileAfter(n).model = c.model
            /\ Hash(t) \in DOMAIN FileAfter(n).embeddings
            /\ FileAfter(n).embeddings[Hash(t)] = ZeroVec
            /\ (m > n /\ d.model = c.model) =>
                  /\ Hash(t) \in DOMAIN d.loaded
                  /\ d.loaded[Hash(t)] = ZeroVec
                  /\ PlacesInBatches(d, t) = 0
                  /\ d.stats.cache_hits >= StatsBefore(m).cache_hits
                        + Cardinality({i \in DOMAIN d.texts : d.texts[i] = t})
                  /\ Returned(d) =>
                        \A i \in DOMAIN d.texts :
                            d.texts[i] = t => d.result[i] = ZeroVec

\* C28: the texts of every batch that exhausted its retries are in the
\* cache file with the zero vector under the active model when the call is
\* over, and a later call with the same model returns the zero vector for
\* them as cache hits and posts none of them.
ZeroVectorsCached ==
    \A n, m \in DOMAIN calls : ZerosServedFromCache(n, m)

(***************************************************************************)
(* Claims about search (checked under SpecSearch)                          *)
(***************************************************************************)
\* C1: no two entries of the list search returns have the same fragment
\* text, whatever the corpus (equal texts included) and the index answers.
ReturnedTextsDistinct ==
    s_pc = "done" =>
        \A i, j \in DOMAIN returned :
            returned[i].text = returned[j].text => i = j

\* A returned text that two fragments of the corpus carry and that two
\* strategies produced.
ReturnedTextsDistinctWitness ==
    /\ s_pc = "done"
    /\ \E i \in DOMAIN returned :
          /\ Cardinality(produced[returned[i].text]) >= 2
          /\ \E a, b \in DOMAIN metadata :
                /\ a # b
                /\ metadata[a].text = returned[i].text
                /\ metadata[b].text = returned[i].text

\* The earliest strategy, in the order direct, expanded, keyword.
EarliestStrategy(strategies) ==
    IF "direct" \in strategies THEN "direct"
    ELSE IF "expanded" \in strategies THEN "expanded"
    ELSE "keyword"

\* C2: the pooled result of a text carries the strategy tag and the
\* similarity of the earliest strategy that produced the text (direct before
\* expanded before keyword), as that strategy first produced it; no later
\* duplicate replaces or changes it.
FirstStrategyWins ==
    \A i \in DOMAIN all_results :
        LET r == all_results[i]
        IN  /\ r.strategy = EarliestStrategy(produced[r.text])
            /\ r.strategy = first_seen[r.text].strategy
            /\ r.similarity = first_seen[r.text].similarity

\* A text the direct strategy pooled and a rewrite then matched with a
\* higher similarity.
FirstStrategyWinsWitness ==
    /\ s_pc = "done"
    /\ \E i \in DOMAIN returned :
          /\ returned[i].strategy = "direct"
          /\ "expanded" \in produced[returned[i].text]
          /\ vector_best[returned[i].text] > returned[i].similarity

\* C3: search returns at most top_k results, in non-increasing similarity.
ReturnedRanked ==
    s_pc = "done" =>
        /\ Len(returned) <= top_k
        /\ \A i \in 1..(Len(returned) - 1) :
              returned[i].similarity >= returned[i + 1].similarity

\* A pool larger than top_k whose last-pooled keyword result outranks a
\* direct one.
ReturnedRankedWitness ==
    /\ s_pc = "done"
    /\ Len(all_results) > top_k
    /\ Len(returned) = top_k
    /\ \E i, j \in DOMAIN returned :
          /\ i < j
          /\ returned[i].strategy = "keyword"
          /\ returned[j].strategy = "direct"
          /\ returned[i].similarity > returned[j].similarity

\* The place of a result's query in the order the strategies run in.
StrategyRank(r) ==
    IF r.strategy = "direct" THEN 0
    ELSE IF r.strategy = "expanded" THEN first_seen[r.text].query
    ELSE 3

\* C4: among returned results of equal similarity, direct precedes expanded,
\* the first rewrite precedes the second, and expanded precedes keyword,
\* whatever order the gathered embeddings completed in.
TiesKeepStrategyOrder ==
    s_pc = "done" =>
        \A i, j \in DOMAIN returned :
            (i < j /\ returned[i].similarity = returned[j].similarity)
                => StrategyRank(returned[i]) <= StrategyRank(returned[j])

\* The second rewrite's embedding completed first, and results of the first
\* rewrite, of the second and of the keyword scan tie.
TiesKeepStrategyOrderWitness ==
    /\ s_pc = "done"
    /\ completion = <<2, 1>>
    /\ \E i, j, k \in DOMAIN returned :
          /\ i < j /\ j < k
          /\ returned[i].similarity = returned[k].similarity
          /\ returned[j].similarity = returned[k].similarity
          /\ StrategyRank(returned[i]) = 1
          /\ StrategyRank(returned[j]) = 2
          /\ StrategyRank(returned[k]) = 3

\* ---- the end-to-end scenario ----
\* The text holds every keyword of the question.
FullMatch(text) ==
    LET keywords == extract_keywords(question)
    IN  keywords # {} /\ KeywordMatches(keywords, text) = Cardinality(keywords)

Documents == {metadata[i].source : i \in DOMAIN metadata}

MatchedDocuments ==
    {metadata[i].source : i \in {l \in DOMAIN metadata : FullMatch(metadata[l].text)}}

MatchedTexts ==
    {metadata[i].text : i \in {l \in DOMAIN metadata : FullMatch(metadata[l].text)}}

\* search(question, top_k=5) has returned, over three documents of which the
\* keywords of the question exactly match one.
Scenario ==
    /\ s_pc = "done"
    /\ top_k = 5
    /\ Cardinality(Documents) = 3
    /\ Cardinality(MatchedDocuments) = 1

ReturnedAs(text, strategy) ==
    \E i \in DOMAIN returned :
        returned[i].text = text /\ returned[i].strategy = strategy

FirstAs(text, strategy) ==
    /\ returned # <<>>
    /\ returned[1].text = text
    /\ returned[1].strategy = strategy

\* C5 as claimed: in the scenario the matched fragment is returned tagged
\* keyword whenever no vector match exceeds 0.6, and tagged direct at rank 1
\* whenever a vector match for it scores highest.
EndToEndTagging ==
    Scenario =>
        \A t \in MatchedTexts :
            /\ (\A u \in AllTexts : ~AboveThreshold(vector_best[u]))
                  => ReturnedAs(t, "keyword")
            /\ (/\ vector_best[t] >= 0
                /\ \A u \in AllTexts : vector_best[u] <= vector_best[t])
                  => FirstAs(t, "direct")

\* The pooled results that may stand before a keyword result of similarity 1.
AtLeastOne(t) ==
    {i \in DOMAIN all_results :
        all_results[i].text # t /\ all_results[i].similarity >= SimScale}

\* C5 as amended: in the scenario the matched fragment is returned tagged
\* keyword whenever the direct query did not answer it and no rewrite matched
\* it above 0.6 (fewer than five other results of similarity 1 being
\* pooled), and tagged direct at rank 1 whenever the direct query answered it
\* with a similarity above that of every other pooled result.
EndToEndTaggingByStrategy ==
    Scenario =>
        \A t \in MatchedTexts :
            /\ (/\ "direct" \notin produced[t]
                /\ ~AboveThreshold(vector_best[t])
                /\ Cardinality(AtLeastOne(t)) < 5)
                  => ReturnedAs(t, "keyword")
            /\ (/\ "direct" \in produced[t]
                /\ \A i \in DOMAIN all_results :
                      all_results[i].text # t
                          => all_results[i].similarity
                                < first_seen[t].similarity)
                  => FirstAs(t, "direct")

\* The question's embedding was absent, a rewrite matched the fragment at
\* exactly 0.6, and the keyword scan returned it.
EndToEndTaggingWitness ==
    /\ Scenario
    /\ \E t \in MatchedTexts :
          /\ "direct" \notin produced[t]
          /\ vector_best[t] >= 0
          /\ ~AboveThreshold(vector_best[t])
          /\ ReturnedAs(t, "keyword")

\* The rewrites of each question in the order expand_query generates them.
RewritesOf == [q \in Questions |-> RewritesFrom(q, 1)]

GeneratedRewrites == RewritesOf[question]

\* C22: the queries embedded for the expanded strategy are the first two
\* rewrites that expand_query generates (fewer when it generates fewer),
\* never the question itself; each is asked for ExpandedK = 5 neighbours;
\* every pooled result tagged "expanded" has a similarity above 0.6 and a
\* text that no earlier pooled result has.
ExpandedBounded ==
    /\ expanded_tasks \in
          {<<>>, SubSeq(GeneratedRewrites, 1, Min(2, Len(GeneratedRewrites)))}
    /\ Len(expanded_tasks) <= 2
    /\ question \notin Range(expanded_tasks)
    /\ Len(completion) <= 2
    /\ s_pc = "knn_expanded" =>
          /\ Cardinality(knn_used) + knn_left = ExpandedK
          /\ exp_index \in 1..2
    /\ \A i \in DOMAIN all_results :
          all_results[i].strategy = "expanded" =>
              /\ 10 * all_results[i].similarity > 6 * SimScale
              /\ s_pc # "done" =>
                    \A j \in 1..(i - 1) : all_results[j].text # all_results[i].text
              /\ \A j \in DOMAIN all_results :
                    j # i => all_results[j].text # all_results[i].text

\* Four rewrites were generated, two were queried; one match of a rewrite
\* was pooled and another, at similarity 0.6, was not.
ExpandedBoundedWitness ==
    /\ s_pc = "done"
    /\ Len(GeneratedRewrites) > 2
    /\ Len(expanded_tasks) = 2
    /\ Len(completion) = 2
    /\ \E i \in DOMAIN returned : returned[i].strategy = "expanded"
    /\ \E t \in AllTexts :
          /\ vector_best[t] = Similarity(240)
          /\ "expanded" \notin produced[t]

\* The positions of the vectors that are not None, in order.
PresentVectors(embs) ==
    SelectSeq([i \in DOMAIN embs |-> i], LAMBDA i : embs[i] # NoVector)

\* C29: an absent embedding skips only its own index query. The index is
\* asked for the question at most once and first; the rewrites are embedded
\* whether or not the question's vector is absent; the index is asked for
\* exactly the rewrites whose vector is present, in order; and the keyword
\* scan runs, so that every fragment it finds is in the pool from which the
\* returned list is cut.
AbsentVectorSkipsOnlyItsQuery ==
    /\ \A n \in DOMAIN knn_queries : knn_queries[n] = 0 => n = 1
    /\ s_pc = "knn_expanded" => expanded_embeddings[exp_index] # NoVector
    /\ s_pc = "done" =>
          /\ expanded_tasks =
                SubSeq(GeneratedRewrites, 1, Min(2, Len(GeneratedRewrites)))
          /\ Len(expanded_embeddings) = Len(expanded_tasks)
          /\ SelectSeq(knn_queries, LAMBDA q : q # 0)
                = PresentVectors(expanded_embeddings)
          /\ LET keywords == extract_keywords(question)
             IN  keywords # {} =>
                    \A r \in Range(keyword_search(keywords, 1)) :
                        /\ r.text \in seen_texts
                        /\ \E i \in DOMAIN all_results : all_results[i].text = r.text
          /\ returned = Take(all_results, top_k)

\* The question's vector and the first rewrite's vector are absent: the
\* index is asked for the second rewrite only, and the returned list holds a
\* result of it and a result of the keyword scan.
AbsentVectorSkipsOnlyItsQueryWitness ==
    /\ s_pc = "done"
    /\ Len(expanded_embeddings) = 2
    /\ expanded_embeddings[1] = NoVector
    /\ knn_queries = <<2>>
    /\ \E i \in DOMAIN returned : returned[i].strategy = "expanded"
    /\ \E i \in DOMAIN returned : returned[i].strategy = "keyword"

(***************************************************************************)
(* Claims about create_context (checked under SpecContext)                 *)
(***************************************************************************)
\* The block renders a result of search_results whose similarity is above 0.2.
FromStrongResult(block) ==
    \E i \in DOMAIN search_results :
        /\ search_results[i].source = block.source
        /\ search_results[i].text = block.text
        /\ TwoDecimals(search_results[i].similarity) = block.relevance
        /\ 5 * search_results[i].similarity > ContextScale

\* C14 as claimed: every block of the context comes from a result whose
\* similarity is above 0.2, and the similarity it reports with two decimals
\* is never 0.20 or less.
ReportedAboveThreshold ==
    ctx_pc = "done" =>
        \A b \in DOMAIN context :
            /\ FromStrongResult(context[b])
            /\ context[b].relevance > 20

\* C14 as amended: every block of the context comes from a result whose
\* similarity is above 0.2, and the similarity it reports with two decimals
\* is never below 0.20.
ReportedAtLeastThreshold ==
    ctx_pc = "done" =>
        \A b \in DOMAIN context :
            /\ FromStrongResult(context[b])
            /\ context[b].relevance >= 20

\* A context with a block that reports 0.20, built from results of which one
\* was dropped for a similarity of 0.2 or less.
ReportedAtLeastThresholdWitness ==
    /\ ctx_pc = "done"
    /\ \E b \in DOMAIN context : context[b].relevance = 20
    /\ \E i \in DOMAIN search_results : 5 * search_results[i].similarity <= ContextScale
    /\ Len(context) >= 2

(***************************************************************************)
(* Claims about the citations of handle_message (checked under SpecCite)   *)
(***************************************************************************)
\* The markers of a rendered text, left to right: the number shown and the
\* url it is linked to ("" for a plain marker).
RECURSIVE Markers(_, _)
Markers(str, i) ==
    IF i > Len(str) THEN <<>>
    ELSE LET e == IF i + 2 <= Len(str) /\ str[i] = "\\" /\ str[i + 1] = "["
                  THEN MatchEnd(str, i + 2) ELSE 0
             linked == /\ e # 0
                       /\ e + 4 <= Len(str)
                       /\ str[e + 1] = "("
                       /\ str[e + 3] = ")"
                       /\ str[e + 4] = "]"
             p == MatchEnd(str, i)
         IN  IF linked
             THEN <<[num |-> SubSeq(str, i + 3, e - 1), url |-> str[e + 2]]>>
                     \o Markers(str, e + 5)
             ELSE IF p # 0
             THEN <<[num |-> SubSeq(str, i + 1, p - 1), url |-> ""]>>
                     \o Markers(str, p + 1)
             ELSE Markers(str, i + 1)

Cited == FindAll(full_response, 1)

Rendered == Markers(processed_response, 1)

\* The first marker that cites the same number as marker i.
FirstOf(i) ==
    CHOOSE j \in 1..i :
        /\ ToInt(Cited[j]) = ToInt(Cited[i])
        /\ \A k \in 1..(j - 1) : ToInt(Cited[k]) # ToInt(Cited[i])

\* The rank of the number of marker i among the distinct numbers, by first
\* appearance.
RankOf(i) == Cardinality({ToInt(Cited[j]) : j \in 1..FirstOf(i)})

\* C15: once the answer is rendered, every marker shows the rank that its
\* original number N has among the distinct numbers of the answer in order
\* of first appearance, so the distinct numbers become 1, 2, 3, ... and
\* every occurrence of one N shows the same new number.
RenumberedByFirstAppearance ==
    cite_pc = "done" =>
        /\ Len(Rendered) = Len(Cited)
        /\ \A i \in DOMAIN Cited : ToInt(Rendered[i].num) = RankOf(i)

IsLinked(m) == m.url # ""

LinkedNumbers == {m.num : m \in {r \in Range(Rendered) : IsLinked(r)}}

PlainNumbers == {m.num : m \in {r \in Range(Rendered) : ~IsLinked(r)}}

OutOfOrderCase ==
    /\ cite_pc = "done"
    /\ full_response = AnswerOutOfOrder
    /\ Len(sources) = 2

\* C16 as stated: for "A[3] B[1] C[3] D[9]" and two sources, [3] becomes 1,
\* [1] becomes 2, both are linked, and the marker of [9] is the one plain
\* marker.
OutOfOrderTwoLinked ==
    OutOfOrderCase =>
        /\ LinkedNumbers = {<<"1">>, <<"2">>}
        /\ Cardinality(PlainNumbers) = 1

\* C16 as the code has it: for "A[3] B[1] C[3] D[9]" and two sources, [3]
\* becomes 1, [1] becomes 2 and [9] becomes 3; only [1], whose original
\* number is a position of the source list, is linked, to the url of the
\* first source; both [3] and [9] are plain markers: the text is
\* "A[1] B\[[2](u1)] C[1] D[3]".
OutOfOrderOneLinked ==
    OutOfOrderCase =>
        processed_response =
            <<"A", "[", "1", "]", " ",
              "B", "\\", "[", "[", "2", "]", "(", sources[1], ")", "]", " ",
              "C", "[", "1", "]", " ", "D", "[", "3", "]">>

OutOfOrderOneLinkedWitness ==
    /\ OutOfOrderCase
    /\ LinkedNumbers = {<<"2">>}
    /\ PlainNumbers = {<<"1">>, <<"3">>}

\* C17: a marker whose original N is a position of the source list
\* (1 <= N <= len(sources)) is rendered linked to the url of sources[N-1];
\* a marker whose N is 0 or greater than len(sources) is rendered plain; the
\* rendered text has exactly as many markers as the answer.
LinkedByOriginalNumber ==
    cite_pc = "done" =>
        /\ Len(Rendered) = Len(Cited)
        /\ \A i \in DOMAIN Cited :
              IF 1 <= ToInt(Cited[i]) /\ ToInt(Cited[i]) <= Len(sources)
              THEN Rendered[i].url = sources[ToInt(Cited[i])]
              ELSE ~IsLinked(Rendered[i])

LinkedByOriginalNumberWitness ==
    /\ cite_pc = "done"
    /\ Len(sources) = 2
    /\ \E i, j, k \in DOMAIN Cited :
          /\ ToInt(Cited[i]) = 2
          /\ Rendered[i].url = sources[2]
          /\ Rendered[i].num = <<"1">>
          /\ ToInt(Cited[j]) = 0
          /\ ToInt(Cited[k]) = 9
          /\ ~IsLinked(Rendered[j])
          /\ ~IsLinked(Rendered[k])

\* A match of the marker pattern that is part of a link or nested in
\* brackets: followed by "(" or next to another bracket.
InsideLink(str, i) ==
    LET e == MatchEnd(str, i)
    IN  \/ e < Len(str) /\ str[e + 1] \in {"(", "[", "]"}
        \/ i > 1 /\ str[i - 1] \in {"[", "]"}

MatchStarts(str) == {i \in DOMAIN str : MatchEnd(str, i) # 0}

\* C18: an answer whose bracketed numbers all belong to links (followed by
\* "(" or next to another bracket) is rendered unchanged.
LinksLeftUnchanged ==
    (/\ cite_pc = "done"
     /\ \A i \in MatchStarts(full_response) : InsideLink(full_response, i))
        => processed_response = full_response

(***************************************************************************)
(* Claims about handle_message (checked under SpecBot)                     *)
(***************************************************************************)
\* Every result is at or below the 0.2 similarity that a block needs.
AllWeak(results) ==
    \A i \in DOMAIN results : 5 * results[i].similarity <= ContextScale

\* The search has returned (it did not raise) with nothing usable, or the
\* handler has ended with an empty context.
NothingToAnswerWith ==
    /\ error = NoError
    /\ bot_pc \in {"results", "stream", "except", "done"}
    /\ AllWeak(search_results) \/ (bot_pc = "done" /\ context = <<>>)

\* C19: create_context of the empty list is the empty string, and when the
\* search returns no results, or only results the context leaves out, the
\* handler never calls the completion service and its one reply is the
\* "not found" or the "not relevant enough" message.
InsufficientInformation ==
    /\ create_context(<<>>, max_context_length) = <<>>
    /\ NothingToAnswerWith =>
          /\ completion_calls = 0
          /\ bot_pc # "stream"
          /\ bot_pc = "done" =>
                sent = <<Reply(<<IF search_results = <<>> THEN NotFoundText
                                                          ELSE NotRelevantText>>)>>

InsufficientInformationWitness ==
    /\ bot_pc = "done"
    /\ error = NoError
    /\ search_results # <<>>
    /\ AllWeak(search_results)
    /\ sent = <<Reply(<<NotRelevantText>>)>>

\* C20: no message delivered to the user contains the text of an exception.
NoRawExceptionText ==
    \A i \in DOMAIN sent : \A part \in Range(sent[i].text) : part \notin Errors

\* The group of result i: the position at which its source first occurs.
GroupOf(i) ==
    CHOOSE f \in DOMAIN search_results :
        /\ search_results[f].source = search_results[i].source
        /\ \A g \in 1..(f - 1) : search_results[g].source # search_results[i].source

\* The rank of result i within its source: by descending similarity, equal
\* ones in the order of the results.
RankInSource(i) ==
    1 + Cardinality({j \in DOMAIN search_results :
            /\ search_results[j].source = search_results[i].source
            /\ \/ search_results[j].similarity > search_results[i].similarity
               \/ /\ search_results[j].similarity = search_results[i].similarity
                  /\ j < i})

\* The results that are emitted: among the best ten of their source and
\* above 0.2.
Emitted ==
    {i \in DOMAIN search_results :
        /\ RankInSource(i) <= PerSourceCap
        /\ 5 * search_results[i].similarity > ContextScale}

EmittedBefore(j, i) ==
    \/ GroupOf(j) < GroupOf(i)
    \/ GroupOf(j) = GroupOf(i) /\ RankInSource(j) < RankInSource(i)

\* The result whose block is the k-th emitted.
NthEmitted(k) ==
    CHOOSE i \in Emitted : Cardinality({j \in Emitted : EmittedBefore(j, i)}) = k - 1

\* C24: the blocks of the context are those of the emitted results, group
\* by group in the order in which the sources first occur among the
\* results, within a group by descending similarity and from the best ten
\* results of the source only; the context holds the first
\* max_context_length of them.
GroupedBySourceAndCapped ==
    ctx_pc = "done" =>
        /\ Len(context) =
              IF Cardinality(Emitted) < max_context_length
              THEN Cardinality(Emitted) ELSE max_context_length
        /\ \A k \in DOMAIN context :
              LET r == search_results[NthEmitted(k)]
              IN  /\ context[k].source = r.source
                  /\ context[k].text = r.text
                  /\ context[k].relevance = TwoDecimals(r.similarity)

\* Twelve results: the first one of source "b" at 0.206, then ten of "a" at
\* 0.5 and an eleventh of "a" at 0.5 that the cap leaves out: the context is
\* the block of "b" followed by the ten of "a", although those are stronger.
GroupedBySourceAndCappedWitness ==
    /\ ctx_pc = "done"
    /\ Len(search_results) = PerSourceCap + 2
    /\ search_results[1].source = "b"
    /\ search_results[1].similarity = 206
    /\ search_results[Len(search_results)].source = "a"
    /\ search_results[Len(search_results)].similarity = 500
    /\ Len(context) = PerSourceCap + 1
    /\ context[1].source = "b"
    /\ \A k \in 2..Len(context) : context[k].source = "a" /\ context[k].text = "x"

(***************************************************************************)
(* Claims about extract_sources (checked under SpecSources)                *)
(***************************************************************************)
\* The position of a source in lexicographic order.
OrderOf(src) == CHOOSE i \in DOMAIN SourceOrder : SourceOrder[i] = src

FoundSources == {search_results[i].source : i \in DOMAIN search_results}

\* C21: extract_sources returns distinct sources of the results in
\* ascending lexicographic order, as many as there are up to limit, and they
\* are the least ones; so the list is fixed by the set of sources and the
\* limit alone, whatever the order and similarity of the results.
SourcesSortedAndCapped ==
    src_pc = "done" =>
        /\ Range(sources) \subseteq FoundSources
        /\ \A i, j \in DOMAIN sources :
              i < j => OrderOf(sources[i]) < OrderOf(sources[j])
        /\ Len(sources) = Min(src_limit, Cardinality(FoundSources))
        /\ \A src \in FoundSources \ Range(sources) :
              \A i \in DOMAIN sources : OrderOf(sources[i]) < OrderOf(src)

SourcesSortedAndCappedWitness ==
    /\ src_pc = "done"
    /\ Len(search_results) = 3
    /\ search_results[1].source = "c"
    /\ search_results[2].source = "a"
    /\ search_results[3].source = "b"
    /\ src_limit = 2
    /\ sources = <<"a", "b">>

(***************************************************************************)
(* Claims about questions in flight (checked under SpecShared)             *)
(***************************************************************************)
\* C25: the questions share no mutable state: the index and the metadata
\* are only read, and no object that one question writes is read or written
\* by another question.
NoSharedMutableState ==
    /\ \A a \in accesses : a.object \in {"index", "metadata"} => a.kind = "read"
    /\ \A a, b \in accesses :
          (a.kind = "write" /\ a.object = b.object) => a.question = b.question

(***************************************************************************)
(* Claims about the streamed answer (checked under SpecBot)                *)
(***************************************************************************)
\* The text accumulated from the first k chunks received.
TextAfter(k) == Concat(SubSeq(received, 1, k))

\* The snapshots sent while streaming, and the final edit.
IsSnapshot(m) == m.method = "edit_message_text" /\ m.parse_mode = ""

IsFinalEdit(m) == m.method = "edit_message_text" /\ m.parse_mode = "markdown"

\* The handler has ended after it had called the completion service.
AnswerEnded == bot_pc = "done" /\ completion_calls = 1

\* Every snapshot is the text accumulated by some received chunk, markers
\* as the model wrote them.
SnapshotsShowOriginalText ==
    \A i \in DOMAIN sent :
        IsSnapshot(sent[i]) =>
            \E k \in 1..Len(received) : sent[i].text = TextAfter(k)

\* The renumbered text is sent at most once, after the stream has ended, and
\* nothing is sent after it.
RenumberedOnlyAtTheEnd ==
    \A i \in DOMAIN sent :
        IsFinalEdit(sent[i]) =>
            /\ i = Len(sent)
            /\ bot_pc = "done"
            /\ stream = <<>>
            /\ full_response = TextAfter(Len(received))
            /\ sent[i].text = processed_response
            /\ Len(Rendered) = Len(Cited)
            /\ Rendered # <<>> => ToInt(Rendered[1].num) = 1

\* C26 as stated: the renumbered text is the last message of every answer.
RenumberedTextIsLast ==
    /\ SnapshotsShowOriginalText
    /\ RenumberedOnlyAtTheEnd
    /\ AnswerEnded => IsFinalEdit(Last(sent))

\* C26, amended: every snapshot shows the accumulated text with the model's
\* markers unchanged; the renumbered text is sent once, after the stream has
\* ended, and is the last message when its edit is delivered; when that
\* edit raises, the renumbered text is never shown and the last message is
\* the error reply.
RenumberedOnceAfterStream ==
    /\ SnapshotsShowOriginalText
    /\ RenumberedOnlyAtTheEnd
    /\ AnswerEnded =>
          IF error = NoError
          THEN IsFinalEdit(Last(sent))
          ELSE /\ Last(sent).method = "reply_text"
               /\ \A i \in DOMAIN sent : ~IsFinalEdit(sent[i])

\* A snapshot with the marker [2] as written, then the final edit with [1].
RenumberedOnceAfterStreamWitness ==
    /\ AnswerEnded
    /\ received = <<<<"[", "2", "]">>, <<"\n">>>>
    /\ Len(sent) = 3
    /\ sent[2] = EditMessage(<<"[", "2", "]", "\n">>)
    /\ IsFinalEdit(sent[3])
    /\ Rendered[1].num = <<"1">>

\* The last chunk before chunk k whose snapshot was delivered, 0 if none.
LastDelivered(k) ==
    LET before == {snapshot_attempts[i].at : i \in
                      {j \in DOMAIN snapshot_attempts :
                          /\ snapshot_attempts[j].delivered
                          /\ snapshot_attempts[j].at < k}}
    IN  IF before = {} THEN 0
        ELSE CHOOSE a \in before : \A b \in before : b <= a

AttemptedAt(k) == \E i \in DOMAIN snapshot_attempts : snapshot_attempts[i].at = k

DeliveredAttempts == SelectSeq(snapshot_attempts, LAMBDA a : a.delivered)

SentSnapshots == SelectSeq(sent, IsSnapshot)

\* C27: the full text is the concatenation of every chunk received; a
\* snapshot is tried at a chunk exactly when the chunk holds a line break
\* or is at least the 50th since the last delivered snapshot; the delivered
\* snapshots show the text accumulated up to their chunk; and the handler
\* leaves the loop only when the stream has ended, whatever deliveries
\* failed.
SnapshotPolicy ==
    /\ full_response = TextAfter(Len(received))
    /\ \A k \in 1..Len(received) :
          AttemptedAt(k) <=>
              \/ "\n" \in Range(received[k])
              \/ k - LastDelivered(k) >= 50
    /\ Len(SentSnapshots) = Len(DeliveredAttempts)
    /\ \A j \in DOMAIN SentSnapshots :
          SentSnapshots[j].text = TextAfter(DeliveredAttempts[j].at)
    /\ (completion_calls = 1 /\ bot_pc # "stream") => stream = <<>>

\* A line break, then 51 words: the snapshot of the line break is delivered,
\* the one due 50 chunks later fails and is tried again at the next chunk,
\* and the whole text is delivered at the end.
SnapshotPolicyWitness ==
    /\ bot_pc = "done"
    /\ error = NoError
    /\ Len(received) = 52
    /\ snapshot_attempts = << [at |-> 1, delivered |-> TRUE],
                              [at |-> 51, delivered |-> FALSE],
                              [at |-> 52, delivered |-> TRUE] >>
    /\ Last(sent).text = TextAfter(52)

\* C30: every source of a block of the context sent to the model is in the
\* numbered source list sent with it.
EveryBlockCitable ==
    completion_calls = 1 =>
        \A b \in DOMAIN context :
            \E n \in 1..Len(sources) : sources[n] = context[b].source

(***************************************************************************)
(* Specifications                                                          *)
(***************************************************************************)
ChunkSpecInit ==
    ChunkInit /\ EmbedIdle /\ SearchIdle /\ ContextIdle /\ CiteIdle /\ BotIdle /\ SharedIdle

ChunkNext ==
    SplitText
        /\ UNCHANGED <<embed_vars, search_vars, context_vars, cite_vars, bot_vars, shared_vars>>

SpecChunk == ChunkSpecInit /\ [][ChunkNext]_vars

EmbedSpecInit ==
    EmbedInit /\ ChunkIdle /\ SearchIdle /\ ContextIdle /\ CiteIdle /\ BotIdle /\ SharedIdle

EmbedNext ==
    \/ GetEmbeddings /\ UNCHANGED <<chunk_vars, search_vars, context_vars, cite_vars, bot_vars, shared_vars>>
    \/ PostOk /\ UNCHANGED <<chunk_vars, search_vars, context_vars, cite_vars, bot_vars, shared_vars>>
    \/ PostRequestError /\ UNCHANGED <<chunk_vars, search_vars, context_vars, cite_vars, bot_vars, shared_vars>>
    \/ PostStatusError /\ UNCHANGED <<chunk_vars, search_vars, context_vars, cite_vars, bot_vars, shared_vars>>

SpecEmbed == EmbedSpecInit /\ [][EmbedNext]_vars

SearchSpecInit ==
    SearchInit /\ ChunkIdle /\ EmbedIdle /\ ContextIdle /\ CiteIdle /\ BotIdle /\ SharedIdle

SearchNext ==
    \/ Search /\ UNCHANGED <<chunk_vars, embed_vars, context_vars, cite_vars, bot_vars, shared_vars>>
    \/ DirectEmbeddingNone /\ UNCHANGED <<chunk_vars, embed_vars, context_vars, cite_vars, bot_vars, shared_vars>>
    \/ DirectEmbeddingOk /\ UNCHANGED <<chunk_vars, embed_vars, context_vars, cite_vars, bot_vars, shared_vars>>
    \/ DirectMatch /\ UNCHANGED <<chunk_vars, embed_vars, context_vars, cite_vars, bot_vars, shared_vars>>
    \/ EmbeddingTaskDone /\ UNCHANGED <<chunk_vars, embed_vars, context_vars, cite_vars, bot_vars, shared_vars>>
    \/ ExpandedMatch /\ UNCHANGED <<chunk_vars, embed_vars, context_vars, cite_vars, bot_vars, shared_vars>>
    \/ KeywordScan /\ UNCHANGED <<chunk_vars, embed_vars, context_vars, cite_vars, bot_vars, shared_vars>>

SpecSearch == SearchSpecInit /\ [][SearchNext]_vars

ContextSpecInit ==
    ContextInit /\ ChunkIdle /\ EmbedIdle /\ SearchIdle /\ CiteIdle /\ BotIdle /\ SharedIdle

ContextNext ==
    CreateContext
        /\ UNCHANGED <<chunk_vars, embed_vars, search_vars, cite_vars, bot_vars, shared_vars>>

SpecContext == ContextSpecInit /\ [][ContextNext]_vars

CiteSpecInit ==
    CiteInit /\ ChunkIdle /\ EmbedIdle /\ SearchIdle /\ ContextIdle /\ BotIdle /\ SharedIdle

CiteNext ==
    RenderCitations
        /\ UNCHANGED <<chunk_vars, embed_vars, search_vars, context_vars, bot_vars, shared_vars>>

SpecCite == CiteSpecInit /\ [][CiteNext]_vars

BotSpecInit ==
    /\ BotInit
    /\ ChunkIdle /\ EmbedIdle /\ SearchIdle /\ ContextIdle /\ CiteIdle /\ SharedIdle

bot_frame ==
    <<chunk_vars, embed_vars, search_vars, max_context_length, ctx_pc, src_limit,
      src_pc, cite_pc, shared_vars>>

BotNext ==
    \/ SendChatAction /\ UNCHANGED bot_frame
    \/ SendChatActionRaises /\ UNCHANGED bot_frame
    \/ ErrorHandler /\ UNCHANGED bot_frame
    \/ SearchReturns /\ UNCHANGED bot_frame
    \/ SearchRaises /\ UNCHANGED bot_frame
    \/ NoResults /\ UNCHANGED bot_frame
    \/ ContextEmpty /\ UNCHANGED bot_frame
    \/ StartStream /\ UNCHANGED bot_frame
    \/ ReceiveChunk /\ UNCHANGED bot_frame
    \/ CompletionFails /\ UNCHANGED bot_frame
    \/ FinalEdit /\ UNCHANGED bot_frame
    \/ FinalEditRaises /\ UNCHANGED bot_frame
    \/ Except /\ UNCHANGED bot_frame

SpecBot == BotSpecInit /\ [][BotNext]_vars

SourcesSpecInit ==
    /\ SourcesInit
    /\ max_context_length = MaxContextLength
    /\ context = <<>>
    /\ ctx_pc = "off"
    /\ full_response = <<>>
    /\ processed_response = <<>>
    /\ cite_pc = "off"
    /\ ChunkIdle /\ EmbedIdle /\ SearchIdle /\ BotIdle /\ SharedIdle

SourcesNext ==
    ExtractSources
        /\ UNCHANGED <<chunk_vars, embed_vars, search_vars, bot_vars, shared_vars,
                       max_context_length, context, ctx_pc, full_response,
                       processed_response, cite_pc>>

SpecSources == SourcesSpecInit /\ [][SourcesNext]_vars

SharedSpecInit ==
    /\ SharedInit
    /\ ChunkIdle /\ EmbedIdle /\ SearchIdle /\ ContextIdle /\ CiteIdle /\ BotIdle

shared_frame ==
    <<chunk_vars, embed_vars, search_vars, context_vars, cite_vars, bot_vars>>

SharedNext ==
    \/ BeginSearch /\ UNCHANGED shared_frame
    \/ QuestionVector /\ UNCHANGED shared_frame
    \/ QuestionNoVector /\ UNCHANGED shared_frame
    \/ DirectAnswered /\ UNCHANGED shared_frame
    \/ GatherReturned /\ UNCHANGED shared_frame
    \/ ExpandedAnswered /\ UNCHANGED shared_frame
    \/ KeywordAnswered /\ UNCHANGED shared_frame

SpecShared == SharedSpecInit /\ [][SharedNext]_vars

====
